---- MODULE Spec2Model ----
(***************************************************************************)
(* Recommendation composition pipeline of the NAS repository:              *)
(* StrategyEngine (strategy_engine.py), ThesisEngine (thesis_engine.py),   *)
(* the player context builder (player_context.py) with its enhancers,      *)
(* the rotation engines and DailyMultipleEngine (daily_multiple.py).       *)
(*                                                                         *)
(* Numbers: confidences are integers in hundredths (0.65 -> 65), score     *)
(* adjustments and adjusted confidences in thousandths (0.15 -> 150).      *)
(***************************************************************************)
EXTENDS Integers, Sequences, FiniteSets, TLC

VARIABLES
    pc,               \* position of the call in progress
    all_theses,       \* compose_recommendations argument, flattened in iteration order
    game_ctx,         \* compose_recommendations argument
    used_players,     \* StrategyEngine.used_players
    used_teams,       \* StrategyEngine.used_teams   (defaultdict(int))
    used_markets,     \* StrategyEngine.used_markets (defaultdict(int))
    categorized,      \* local of compose_recommendations
    selected,         \* local of compose_recommendations: the list a bucket is cut from
    recommendations,  \* local / return value of compose_recommendations
    player_ctx,       \* ThesisEngine.generate_all_theses argument
    generated_theses, \* ThesisEngine.generate_all_theses local / return value
    players_data,     \* ThesisEngine.process_game argument
    build_args,       \* arguments of build_player_ctx / derive_availability_and_expected_minutes
    derive_result,    \* return value of derive_availability_and_expected_minutes
    player_context,   \* the player context dict, from build_player_ctx through the enhancers
    rotation_signals, \* RotationAnalyzer.rotation_signals
    enhance_args,     \* arguments of the enhancer stages
    stages,           \* number of enhancer stages applied
    rotation_args,    \* arguments of evaluate_rotation_context
    rotation_result,  \* return value of evaluate_rotation_context
    multiple,         \* _validate_multiple argument, mutated in place
    correlation_validator,  \* DailyMultipleEngine.correlation_validator
    depth,            \* recursion depth of _validate_multiple
    tickets,          \* return value of a daily-multiple entry point
    calls,            \* locals of the compose_recommendations calls running concurrently
    cache,            \* InjuryMonitor.cache
    now,              \* datetime.now(), in hours
    injuries_result   \* return value of the last InjuryMonitor call

engine == <<used_players, used_teams, used_markets>>
composeVars == <<all_theses, used_players, used_teams, used_markets,
                 categorized, selected, recommendations>>
thesisVars == <<player_ctx, generated_theses, players_data>>
contextVars == <<build_args, derive_result, player_context, rotation_signals, enhance_args, stages>>
rotationVars == <<rotation_args, rotation_result>>
multipleVars == <<multiple, correlation_validator, depth, tickets>>
concurrentVars == <<calls>>
injuryVars == <<cache, now, injuries_result>>
vars == <<pc, game_ctx, composeVars, thesisVars, contextVars, rotationVars, multipleVars,
          concurrentVars, injuryVars>>

\* the variables a call of one component leaves alone
notCompose == <<thesisVars, contextVars, rotationVars, multipleVars,
        concurrentVars, injuryVars>>
notThesis == <<composeVars, contextVars, rotationVars, multipleVars,
        concurrentVars, injuryVars>>
notContext == <<game_ctx, composeVars, thesisVars, rotationVars, multipleVars,
        concurrentVars, injuryVars>>
notMultiple == <<game_ctx, composeVars, thesisVars, contextVars, rotationVars,
        concurrentVars, injuryVars>>
notRotation == <<game_ctx, composeVars, thesisVars, contextVars, multipleVars,
        concurrentVars, injuryVars>>

(***************************************************************************)
(* Bounds of the model                                                     *)
(***************************************************************************)
MaxTheses == 5
MaxRecords == 3
MaxCount == 3
MaxStatusLen == 3
MaxStages == 3
MaxLegs == 3

(***************************************************************************)
(* Helpers                                                                 *)
(***************************************************************************)
Abs(x) == IF x < 0 THEN -x ELSE x
Min2(a, b) == IF a < b THEN a ELSE b
Max2(a, b) == IF a > b THEN a ELSE b

\* a list that holds x when cond is true
Optional(cond, x) == IF cond THEN <<x>> ELSE <<>>

\* round(n / d) to the nearest integer, ties to even (Python's round), n >= 0
RoundDiv(n, d) ==
    LET q == n \div d
        r == n % d
    IN  IF 2 * r < d THEN q
        ELSE IF 2 * r > d THEN q + 1
        ELSE IF q % 2 = 0 THEN q ELSE q + 1

\* defaultdict(int): a function on the keys created so far
EmptyCounter == [k \in {} |-> 0]
CounterGet(d, k) == IF k \in DOMAIN d THEN d[k] ELSE 0
\* reading d[k] creates the key
CounterTouch(d, k) == IF k \in DOMAIN d THEN d ELSE d @@ (k :> 0)
CounterInc(d, k) == IF k \in DOMAIN d THEN [d EXCEPT ![k] = @ + 1] ELSE d @@ (k :> 1)

Categories == <<"conservadora", "ousada", "banco", "explosao">>
CategorySet == {"conservadora", "ousada", "banco", "explosao"}

(***************************************************************************)
(* StrategyEngine.__init__: category_configs                               *)
(***************************************************************************)
category_configs ==
    [conservadora |-> [min_confidence |-> 65, max_players |-> 4,
                       allowed_markets |-> {"PTS", "REB"},
                       allowed_roles |-> {"starter"},
                       priority_theses |-> {"BigRebound", "ScorerLine"}],
     ousada       |-> [min_confidence |-> 60, max_players |-> 3,
                       allowed_markets |-> {"PRA", "REB+AST", "PTS+REB"},
                       allowed_roles |-> {"starter", "rotation"},
                       priority_theses |-> {"AssistMatchup", "PaceBoost"}],
     banco        |-> [min_confidence |-> 55, max_players |-> 3,
                       allowed_markets |-> {"PRA", "PTS", "REB"},
                       allowed_roles |-> {"bench", "rotation"},
                       priority_theses |-> {"ValueHunter"}],
     explosao     |-> [min_confidence |-> 60, max_players |-> 2,
                       allowed_markets |-> {"AST", "PTS", "REB"},
                       allowed_roles |-> {"starter", "rotation", "bench"},
                       priority_theses |-> {"PaceBoost", "AssistMatchup", "ScorerLine"}]]

(***************************************************************************)
(* Thesis records.  keys is the set of dictionary keys the record carries; *)
(* a field whose key is absent holds a filler that is never read through   *)
(* an indexing expression without raising KeyError.                        *)
(***************************************************************************)
ThesisKeys == {"player", "market", "confidence", "thesis_type"}

MkThesis(p, tt, m, c, role, team, ks) ==
    [player |-> p, thesis_type |-> tt, market |-> m, confidence |-> c,
     player_ctx |-> [role |-> role, team |-> team], keys |-> ks]

\* dict.get(key, default)
Get(t, k, default) == IF k \in t.keys THEN t[k] ELSE default

(***************************************************************************)
(* StrategyEngine._determine_category                                      *)
(***************************************************************************)
\* the same with the explosao rule tested before the ousada rule
_determine_category_ExplosaoFirst(thesis, pctx) ==
    LET thesis_type == Get(thesis, "thesis_type", "")
        market      == Get(thesis, "market", "")
        confidence  == Get(thesis, "confidence", 0)
        role        == pctx.role
    IN  IF /\ confidence >= 65 /\ role = "starter"
           /\ market \in {"PTS", "REB"}
           /\ thesis_type \in {"BigRebound", "ScorerLine"}
        THEN "conservadora"
        ELSE IF confidence >= 60 /\ thesis_type \in {"PaceBoost", "AssistMatchup"}
        THEN "explosao"
        ELSE IF /\ confidence >= 60 /\ role \in {"starter", "rotation"}
                /\ market \in {"PRA", "REB+AST", "PTS+REB"}
                /\ thesis_type \in {"AssistMatchup", "PaceBoost"}
        THEN "ousada"
        ELSE IF /\ confidence >= 55 /\ role \in {"bench", "rotation"}
                /\ thesis_type = "ValueHunter"
        THEN "banco"
        ELSE IF confidence >= 70 /\ role = "starter"
        THEN "conservadora"
        ELSE IF confidence >= 70 /\ role \in {"rotation", "bench"}
        THEN "banco"
        ELSE "None"

_determine_category(thesis, pctx) ==
    LET thesis_type == Get(thesis, "thesis_type", "")
        market      == Get(thesis, "market", "")
        confidence  == Get(thesis, "confidence", 0)
        role        == pctx.role
    IN  IF /\ confidence >= 65 /\ role = "starter"
           /\ market \in {"PTS", "REB"}
           /\ thesis_type \in {"BigRebound", "ScorerLine"}
        THEN "conservadora"
        ELSE IF /\ confidence >= 60 /\ role \in {"starter", "rotation"}
                /\ market \in {"PRA", "REB+AST", "PTS+REB"}
                /\ thesis_type \in {"AssistMatchup", "PaceBoost"}
        THEN "ousada"
        ELSE IF /\ confidence >= 55 /\ role \in {"bench", "rotation"}
                /\ thesis_type = "ValueHunter"
        THEN "banco"
        ELSE IF confidence >= 60 /\ thesis_type \in {"PaceBoost", "AssistMatchup"}
        THEN "explosao"
        ELSE IF confidence >= 70 /\ role = "starter"
        THEN "conservadora"
        ELSE IF confidence >= 70 /\ role \in {"rotation", "bench"}
        THEN "banco"
        ELSE "None"

(***************************************************************************)
(* StrategyEngine.categorize_theses: the four candidate pools, each in the *)
(* iteration order of all_theses; BlowoutRisk theses are skipped.          *)
(***************************************************************************)
EnhanceThesis(thesis, category) ==
    [player |-> thesis.player, thesis_type |-> thesis.thesis_type,
     market |-> thesis.market, confidence |-> thesis.confidence,
     keys |-> thesis.keys, category |-> category,
     player_team |-> thesis.player_ctx.team,
     player_role |-> thesis.player_ctx.role]

\* the same without the BlowoutRisk skip
RECURSIVE CandidatesOf_KeepRisk(_, _)
CandidatesOf_KeepRisk(theses, category) ==
    IF theses = <<>> THEN <<>>
    ELSE LET thesis == Head(theses)
             rest   == CandidatesOf_KeepRisk(Tail(theses), category)
         IN  IF _determine_category(thesis, thesis.player_ctx) = category
             THEN <<EnhanceThesis(thesis, category)>> \o rest
             ELSE rest

RECURSIVE CandidatesOf(_, _)
CandidatesOf(theses, category) ==
    IF theses = <<>> THEN <<>>
    ELSE LET thesis == Head(theses)
             rest   == CandidatesOf(Tail(theses), category)
         IN  IF Get(thesis, "thesis_type", "None") = "BlowoutRisk" THEN rest
             ELSE IF _determine_category(thesis, thesis.player_ctx) = category
                  THEN <<EnhanceThesis(thesis, category)>> \o rest
                  ELSE rest

categorize_theses(theses) ==
    [k \in {c \o "_candidates" : c \in CategorySet} |->
        CandidatesOf(theses, CHOOSE c \in CategorySet : c \o "_candidates" = k)]

(***************************************************************************)
(* StrategyEngine.select_for_category                                      *)
(***************************************************************************)
\* thesis[...] on an absent key, in the order the filter loop indexes
FilterRaises(thesis, config, used) ==
    \/ "player" \notin thesis.keys
    \/ /\ thesis.player \notin used
       /\ \/ "confidence" \notin thesis.keys
          \/ /\ thesis.confidence >= config.min_confidence
             /\ (config.allowed_roles # {} => thesis.player_role \in config.allowed_roles)
             /\ config.allowed_markets # {}
             /\ \/ "market" \notin thesis.keys
                \/ /\ thesis.market \in config.allowed_markets
                   /\ "thesis_type" \notin thesis.keys
    \/ /\ thesis.player \notin used
       /\ "confidence" \in thesis.keys
       /\ thesis.confidence >= config.min_confidence
       /\ (config.allowed_roles # {} => thesis.player_role \in config.allowed_roles)
       /\ config.allowed_markets = {}
       /\ "thesis_type" \notin thesis.keys

\* the four `continue` checks of the filter loop
PassesFilter_NoUsedCheck(thesis, config, used) ==
    /\ thesis.confidence >= config.min_confidence
    /\ (config.allowed_roles # {} => thesis.player_role \in config.allowed_roles)
    /\ (config.allowed_markets # {} => thesis.market \in config.allowed_markets)

PassesFilter(thesis, config, used) ==
    /\ thesis.player \notin used
    /\ thesis.confidence >= config.min_confidence
    /\ (config.allowed_roles # {} => thesis.player_role \in config.allowed_roles)
    /\ (config.allowed_markets # {} => thesis.market \in config.allowed_markets)

\* priority_boost in tenths: 1.2 -> 12, 1.0 -> 10
PriorityBoost(thesis, config) ==
    IF thesis.thesis_type \in config.priority_theses THEN 12 ELSE 10

\* filtered: the (thesis, priority_boost) pairs, in candidate order
RECURSIVE Filtered(_, _, _)
Filtered(candidates, config, used) ==
    IF candidates = <<>> THEN <<>>
    ELSE LET thesis == Head(candidates)
             rest   == Filtered(Tail(candidates), config, used)
         IN  IF PassesFilter(thesis, config, used)
             THEN <<[thesis |-> thesis, boost |-> PriorityBoost(thesis, config)]>> \o rest
             ELSE rest

SortKey(x) == x.thesis.confidence * x.boost

\* sorted(..., reverse=True) is stable: equal keys keep their original order
RECURSIVE InsertByKey(_, _)
InsertByKey(x, s) ==
    IF s = <<>> THEN <<x>>
    ELSE IF SortKey(Head(s)) >= SortKey(x)
         THEN <<Head(s)>> \o InsertByKey(x, Tail(s))
         ELSE <<x>> \o s

RECURSIVE SortedCandidates(_)
SortedCandidates(filtered) ==
    IF filtered = <<>> THEN <<>>
    ELSE InsertByKey(filtered[Len(filtered)],
                     SortedCandidates(SubSeq(filtered, 1, Len(filtered) - 1)))

\* sorted_candidates[:num_selections]
Take(s, n) == SubSeq(s, 1, Min2(Len(s), n))

\* the selection loop; priority_boost is the variable left by the filter loop
RECURSIVE SelectLoop(_, _, _, _)
SelectLoop(chosen, category, priority_boost, st) ==
    IF chosen = <<>> THEN st
    ELSE LET thesis == Head(chosen).thesis
             enhanced == [player |-> thesis.player, thesis_type |-> thesis.thesis_type,
                          market |-> thesis.market, confidence |-> thesis.confidence,
                          player_team |-> thesis.player_team,
                          player_role |-> thesis.player_role,
                          strategy_category |-> category,
                          selection_score |-> thesis.confidence * priority_boost]
         IN  SelectLoop(Tail(chosen), category, priority_boost,
                 [selected     |-> Append(st.selected, enhanced),
                  used_players |-> st.used_players \cup {thesis.player},
                  used_teams   |-> CounterInc(st.used_teams, thesis.player_team),
                  used_markets |-> CounterInc(st.used_markets, thesis.market)])

\* the same without the [:num_selections] slice
select_for_category_NoLimit(candidates, category, n, up, ut, um) ==
    LET config   == category_configs[category]
        filtered == Filtered(candidates, config, up)
        st0      == [selected |-> <<>>, used_players |-> up,
                     used_teams |-> ut, used_markets |-> um]
    IN  IF \E i \in 1..Len(candidates) : FilterRaises(candidates[i], config, up)
        THEN [raised |-> TRUE] @@ st0
        ELSE IF filtered = <<>>
        THEN [raised |-> FALSE] @@ st0
        ELSE [raised |-> FALSE] @@
             SelectLoop(SortedCandidates(filtered), category,
                        filtered[Len(filtered)].boost, st0)

select_for_category(candidates, category, n, up, ut, um) ==
    LET config   == category_configs[category]
        filtered == Filtered(candidates, config, up)
        st0      == [selected |-> <<>>, used_players |-> up,
                     used_teams |-> ut, used_markets |-> um]
    IN  IF \E i \in 1..Len(candidates) : FilterRaises(candidates[i], config, up)
        THEN [raised |-> TRUE] @@ st0
        ELSE IF filtered = <<>>
        THEN [raised |-> FALSE] @@ st0
        ELSE [raised |-> FALSE] @@
             SelectLoop(Take(SortedCandidates(filtered), n), category,
                        filtered[Len(filtered)].boost, st0)

(***************************************************************************)
(* StrategyEngine.identify_strategy.  The modelled theses carry no         *)
(* player_position key, so r.get('player_position', '') is ''.             *)
(***************************************************************************)
identify_strategy(recs, ctx) ==
    LET n       == Len(recs)
        teams   == {recs[i].player_team : i \in 1..n}
        big_men == Cardinality({i \in 1..n : "" \in {"C", "PF"} /\ recs[i].market = "REB"})
    IN  IF n = 0 THEN "INDIVIDUAL_PLAY"
        ELSE IF n >= 2 /\ big_men >= 2
        THEN (IF big_men >= 3 THEN "GLASS_BANGERS_TRIO" ELSE "GLASS_BANGER_PAIR")
        ELSE IF \A i \in 1..n : recs[i].player_role \in {"bench", "rotation"}
        THEN "BENCH_MOB"
        ELSE IF /\ n = 2 /\ Cardinality(teams) = 2
                /\ \A i \in 1..n : recs[i].market = "PTS"
                /\ ctx.pace > 100
        THEN "SHOOTOUT_PAIR"
        ELSE IF /\ Abs(ctx.spread) > 12
                /\ \E i \in 1..n : recs[i].thesis_type = "ValueHunter"
        THEN "BLOWOUT_SPECIAL"
        ELSE "CURATED_COMBO"

(***************************************************************************)
(* StrategyEngine.apply_correlation_adjustments                            *)
(***************************************************************************)
\* max(min(score_adjustment, 0.3), -0.3)
ClampAdjustment_NoFloor(x) == Min2(x, 300)
ClampAdjustment(x) == Max2(Min2(x, 300), -300)

\* the signed sum of penalties and bonuses, before the clamp
RawAdjustment(rec, ctx, ut, um) ==
    LET spread == Abs(ctx.spread) IN
      (IF ut[rec.player_team] > 2 THEN -150 ELSE 0)
    + (IF um[rec.market] > 2 THEN -100 ELSE 0)
    + (IF spread > 10 /\ rec.player_role = "starter" THEN -100 ELSE 0)
    + (IF Cardinality(DOMAIN ut) >= 3 THEN 100 ELSE 0)
    + (IF Cardinality(DOMAIN um) >= 3 THEN 80 ELSE 0)
    + (IF spread <= 5 /\ rec.market = "PTS" THEN 50 ELSE 0)

\* min(max(original * (1 + adjustment), 0), 1), rounded to 3 decimals
AdjustedConfidence(confidence, score_adjustment) ==
    Min2(Max2(RoundDiv(Max2(confidence * (1000 + score_adjustment), 0), 100), 0), 1000)

\* the adjustments list, one tag per message, in the order they are appended
Adjustments(rec, ctx, ut, um) ==
    LET spread == Abs(ctx.spread) IN
       Optional(ut[rec.player_team] > 2, "same_team_penalty")
    \o Optional(um[rec.market] > 2, "same_market_penalty")
    \o Optional(spread > 10 /\ rec.player_role = "starter", "starter_spread_penalty")
    \o Optional(Cardinality(DOMAIN ut) >= 3, "team_diversity_bonus")
    \o Optional(Cardinality(DOMAIN um) >= 3, "market_diversity_bonus")
    \o Optional(spread <= 5 /\ rec.market = "PTS", "close_game_bonus")

apply_correlation_adjustments(rec, ctx, ut0, um0) ==
    LET ut  == CounterTouch(ut0, rec.player_team)
        um  == CounterTouch(um0, rec.market)
        adj == ClampAdjustment(RawAdjustment(rec, ctx, ut, um))
    IN  [rec |-> [adjusted_confidence |-> AdjustedConfidence(rec.confidence, adj),
                  score_adjustment |-> adj,
                  adjustments |-> Adjustments(rec, ctx, ut, um)] @@ rec,
         used_teams |-> ut, used_markets |-> um]

\* [self.apply_correlation_adjustments(r, game_ctx) for r in recs]
RECURSIVE AdjustAll(_, _, _)
AdjustAll(recs, ctx, st) ==
    IF recs = <<>> THEN st
    ELSE LET a == apply_correlation_adjustments(Head(recs), ctx, st.used_teams, st.used_markets)
         IN  AdjustAll(Tail(recs), ctx,
                 [recs |-> Append(st.recs, a.rec),
                  used_teams |-> a.used_teams, used_markets |-> a.used_markets])

\* r['identified_strategy'] = strategy_name for every r
WithStrategy(recs, ctx) ==
    [i \in 1..Len(recs) |-> [identified_strategy |-> identify_strategy(recs, ctx)] @@ recs[i]]

(***************************************************************************)
(* StrategyEngine._ensure_cross_category_diversity                         *)
(***************************************************************************)
WithoutPlayer(recs, player) == SelectSeq(recs, LAMBDA r : r.player # player)

\* the inner loop: recs is the list object the loop iterates, which stays
\* the same when recommendations[category] is rebound to a filtered copy
RECURSIVE DiversityRecs(_, _, _)
DiversityRecs(recs, category, st) ==
    IF recs = <<>> THEN st
    ELSE LET rec    == Head(recs)
             player == rec.player
             score  == rec.adjusted_confidence
         IN  IF player \in DOMAIN st.player_to_score
             THEN IF score > st.player_to_score[player]
                  THEN LET old_category == st.player_to_category[player] IN
                       DiversityRecs(Tail(recs), category,
                         [recommendations |->
                              [st.recommendations EXCEPT ![old_category] = WithoutPlayer(@, player)],
                          player_to_category |->
                              [st.player_to_category EXCEPT ![player] = category],
                          player_to_score |->
                              [st.player_to_score EXCEPT ![player] = score]])
                  ELSE DiversityRecs(Tail(recs), category,
                         [st EXCEPT !.recommendations =
                              [@ EXCEPT ![category] = WithoutPlayer(@, player)]])
             ELSE DiversityRecs(Tail(recs), category,
                    [recommendations |-> st.recommendations,
                     player_to_category |-> st.player_to_category @@ (player :> category),
                     player_to_score |-> st.player_to_score @@ (player :> score)])

\* the outer loop over recommendations.items(), in insertion order
RECURSIVE DiversityCategories(_, _)
DiversityCategories(i, st) ==
    IF i > Len(Categories) THEN st
    ELSE DiversityCategories(i + 1,
             DiversityRecs(st.recommendations[Categories[i]], Categories[i], st))

_ensure_cross_category_diversity(recs) ==
    DiversityCategories(1, [recommendations |-> recs,
                            player_to_category |-> [p \in {} |-> ""],
                            player_to_score |-> [p \in {} |-> 0]]).recommendations

(***************************************************************************)
(* Inputs of compose_recommendations                                       *)
(***************************************************************************)
ThesisUniverse ==
    { MkThesis("A", "BigRebound",  "REB",  70, "starter",  "T1", ThesisKeys),
      MkThesis("B", "ScorerLine",  "PTS",  80, "starter",  "T1", ThesisKeys),
      MkThesis("A", "PaceBoost",   "AST",  65, "starter",  "T1", ThesisKeys),
      MkThesis("C", "AssistMatchup", "AST", 62, "bench",   "T2", ThesisKeys),
      MkThesis("B", "ValueHunter", "PRA",  60, "rotation", "T2", ThesisKeys),
      MkThesis("C", "PaceBoost",   "PRA",  65, "rotation", "T2", ThesisKeys),
      MkThesis("C", "BlowoutRisk", "RISK", 30, "rotation", "T2", ThesisKeys) }

\* records that lack one of the keys the engine indexes
MalformedTheses ==
    { MkThesis("",  "BigRebound",  "REB", 70, "starter",  "T1", ThesisKeys \ {"player"}),
      MkThesis("B", "ValueHunter", "",    60, "rotation", "T2", ThesisKeys \ {"market"}),
      MkThesis("A", "BigRebound",  "REB", 0,  "starter",  "T1", ThesisKeys \ {"confidence"}),
      MkThesis("B", "",            "REB", 75, "starter",  "T1", ThesisKeys \ {"thesis_type"}) }

WellFormedSample ==
    { MkThesis("A", "BigRebound",  "REB",  70, "starter",  "T1", ThesisKeys),
      MkThesis("C", "AssistMatchup", "AST", 62, "bench",   "T2", ThesisKeys) }

SeqsUpTo(S, n) == UNION {[1..k -> S] : k \in 0..n}

GameContexts == {[spread |-> -3, pace |-> 102]}

EmptyDict == [k \in {} |-> <<>>]

At(a, c) == [at |-> a, cat |-> c]

\* num_selections of the four select_for_category calls
num_selections == [conservadora |-> 4, ousada |-> 3, banco |-> 3, explosao |-> 2]
\* the slices conservadora[:4], ousada[:3], banco[:3], explosao[:2]
bucket_slice == [conservadora |-> 4, ousada |-> 3, banco |-> 3, explosao |-> 2]

\* values of the variables of a component that is not running
ComposeIdle ==
    /\ all_theses = <<>>
    /\ used_players = {}
    /\ used_teams = EmptyCounter
    /\ used_markets = EmptyCounter
    /\ categorized = EmptyDict
    /\ selected = <<>>
    /\ recommendations = EmptyDict

ThesisIdle ==
    /\ player_ctx = EmptyDict
    /\ generated_theses = <<>>
    /\ players_data = <<>>

ContextIdle ==
    /\ build_args = EmptyDict
    /\ derive_result = EmptyDict
    /\ player_context = EmptyDict
    /\ rotation_signals = EmptyDict
    /\ enhance_args = EmptyDict
    /\ stages = 0

RotationIdle ==
    /\ rotation_args = EmptyDict
    /\ rotation_result = EmptyDict

MultipleIdle ==
    /\ multiple = <<>>
    /\ correlation_validator = EmptyDict
    /\ depth = 0
    /\ tickets = EmptyDict

ConcurrentIdle == calls = EmptyDict

InjuryIdle ==
    /\ cache = EmptyDict
    /\ now = 0
    /\ injuries_result = EmptyDict

(***************************************************************************)
(* StrategyEngine.compose_recommendations, one step per call it makes      *)
(***************************************************************************)
ComposeInitWith(inputs) ==
    /\ pc = At("start", "")
    /\ all_theses \in inputs
    /\ game_ctx \in GameContexts
    /\ used_players = {}
    /\ used_teams = EmptyCounter
    /\ used_markets = EmptyCounter
    /\ categorized = EmptyDict
    /\ selected = <<>>
    /\ recommendations = EmptyDict
    /\ ThesisIdle
    /\ ContextIdle
    /\ RotationIdle /\ InjuryIdle
    /\ MultipleIdle
    /\ ConcurrentIdle

\* the attributes of the engine object
Self == [used_players |-> used_players, used_teams |-> used_teams,
         used_markets |-> used_markets]

\* a reset that clears used_players only
ResetSelection_KeepCounters(self) == [self EXCEPT !.used_players = {}]

\* reset_selection(self): the three attributes after the call
ResetSelection(self) ==
    [used_players |-> {}, used_teams |-> EmptyCounter, used_markets |-> EmptyCounter]

\* self.reset_selection()
reset_selection ==
    /\ pc.at = "start"
    /\ used_players' = ResetSelection(Self).used_players
    /\ used_teams' = ResetSelection(Self).used_teams
    /\ used_markets' = ResetSelection(Self).used_markets
    /\ pc' = At("categorize", "")
    /\ UNCHANGED <<all_theses, game_ctx, categorized, selected, recommendations>>
    /\ UNCHANGED notCompose

\* categorized = self.categorize_theses(all_theses, game_ctx)
Categorize ==
    /\ pc.at = "categorize"
    /\ categorized' = categorize_theses(all_theses)
    /\ pc' = At("select", Categories[1])
    /\ UNCHANGED <<all_theses, game_ctx, engine, selected, recommendations>>
    /\ UNCHANGED notCompose

\* x = self.select_for_category(categorized[...], category, game_ctx, num_selections=n)
Select(i) ==
    /\ pc = At("select", Categories[i])
    /\ LET category == Categories[i]
           r == select_for_category(categorized[category \o "_candidates"], category,
                                    num_selections[category],
                                    used_players, used_teams, used_markets)
       IN  /\ pc' = IF r.raised THEN At("raised", category) ELSE At("adjust", category)
           /\ selected' = r.selected
           /\ used_players' = r.used_players
           /\ used_teams' = r.used_teams
           /\ used_markets' = r.used_markets
    /\ UNCHANGED <<all_theses, game_ctx, categorized, recommendations>>
    /\ UNCHANGED notCompose

\* x = [self.apply_correlation_adjustments(r, game_ctx) for r in x];
\* identify_strategy; recommendations[category] = x[:n]
Adjust(i) ==
    /\ pc = At("adjust", Categories[i])
    /\ LET category == Categories[i]
           a == AdjustAll(selected, game_ctx,
                          [recs |-> <<>>, used_teams |-> used_teams,
                           used_markets |-> used_markets])
           recs == IF a.recs # <<>> THEN WithStrategy(a.recs, game_ctx) ELSE a.recs
       IN  /\ selected' = recs
           /\ used_teams' = a.used_teams
           /\ used_markets' = a.used_markets
           /\ recommendations' = recommendations @@ (category :> Take(recs, bucket_slice[category]))
    /\ pc' = IF i < Len(Categories) THEN At("select", Categories[i + 1])
             ELSE At("diversity", "")
    /\ UNCHANGED <<all_theses, game_ctx, used_players, categorized>>
    /\ UNCHANGED notCompose

\* self._ensure_cross_category_diversity(recommendations); return recommendations
EnsureDiversity ==
    /\ pc.at = "diversity"
    /\ recommendations' = _ensure_cross_category_diversity(recommendations)
    /\ pc' = At("done", "")
    /\ UNCHANGED <<all_theses, game_ctx, engine, categorized, selected>>
    /\ UNCHANGED notCompose

ComposeNext ==
    \/ reset_selection
    \/ Categorize
    \/ \E i \in 1..Len(Categories) : Select(i)
    \/ \E i \in 1..Len(Categories) : Adjust(i)
    \/ EnsureDiversity

\* composition over well-formed thesis records
ComposeInit == ComposeInitWith(SeqsUpTo(ThesisUniverse, MaxTheses))
Spec == ComposeInit /\ [][ComposeNext]_vars

\* composition over inputs that may hold malformed thesis records
MalformedInit == ComposeInitWith(SeqsUpTo(MalformedTheses \cup WellFormedSample, MaxRecords))
SpecMalformed == MalformedInit /\ [][ComposeNext]_vars

(***************************************************************************)
(* StrategyEngine.generate_multipla_dia                                    *)
(***************************************************************************)
\* the loop over categorized['ousada_candidates']: at most four entries, one
\* per player not yet used
RECURSIVE OusadaLoop(_, _, _)
OusadaLoop(candidates, ctx, st) ==
    IF candidates = <<>> \/ Len(st.recs) >= 4 THEN st
    ELSE LET thesis == Head(candidates)
         IN  IF thesis.player \in st.used_players
             THEN OusadaLoop(Tail(candidates), ctx, st)
             ELSE LET a == apply_correlation_adjustments(thesis, ctx, st.used_teams,
                                                         st.used_markets)
                  IN  OusadaLoop(Tail(candidates), ctx,
                          [recs |-> Append(st.recs, a.rec),
                           used_players |-> st.used_players \cup {thesis.player},
                           used_teams |-> a.used_teams,
                           used_markets |-> a.used_markets])

\* r['multipla_type'] = kind for every r
WithMultiplaType(recs, kind) ==
    [i \in 1..Len(recs) |-> [multipla_type |-> kind] @@ recs[i]]

generate_multipla_dia(self, theses, ctx) ==
    LET reset == ResetSelection(self)
        cands == categorize_theses(theses)
        r == select_for_category(cands["conservadora_candidates"], "conservadora", 6,
                                 reset.used_players, reset.used_teams, reset.used_markets)
        a == AdjustAll(r.selected, ctx,
                       [recs |-> <<>>, used_teams |-> r.used_teams,
                        used_markets |-> r.used_markets])
        conservadora_multipla == Take(a.recs, 6)
        o == OusadaLoop(cands["ousada_candidates"], ctx,
                        [recs |-> <<>>, used_players |-> r.used_players,
                         used_teams |-> a.used_teams, used_markets |-> a.used_markets])
        strategy(recs, kind) ==
            IF recs # <<>> THEN WithMultiplaType(WithStrategy(recs, ctx), kind) ELSE recs
    IN  [categorized |-> cands,
         used_players |-> o.used_players,
         used_teams |-> o.used_teams,
         used_markets |-> o.used_markets,
         result |-> [conservadora |-> strategy(conservadora_multipla, "conservadora"),
                     ousada |-> strategy(o.recs, "ousada")]]

(***************************************************************************)
(* The two entry points that fill buckets, over thesis lists that hold     *)
(* risk theses                                                             *)
(***************************************************************************)
\* categorize_theses looks at thesis_type only: the second record is a risk
\* thesis that every later filter would accept
BucketTheses ==
    ThesisUniverse \cup
    { MkThesis("A", "BlowoutRisk", "REB", 75, "starter", "T1", ThesisKeys) }

BucketsInit == ComposeInitWith(SeqsUpTo(BucketTheses, MaxRecords))

\* multiplas = engine.generate_multipla_dia(all_theses, game_ctx)
GenerateMultiplaDia ==
    /\ pc.at = "start"
    /\ LET m == generate_multipla_dia(Self, all_theses, game_ctx)
       IN  /\ categorized' = m.categorized
           /\ used_players' = m.used_players
           /\ used_teams' = m.used_teams
           /\ used_markets' = m.used_markets
           /\ recommendations' = m.result
    /\ pc' = At("multipla_done", "")
    /\ UNCHANGED <<all_theses, game_ctx, selected>>
    /\ UNCHANGED notCompose

BucketsNext == ComposeNext \/ GenerateMultiplaDia

SpecBuckets == BucketsInit /\ [][BucketsNext]_vars

\* the theses of a list, as a set
Range(s) == {s[i] : i \in 1..Len(s)}

\* a thesis without the metadata categorize_theses and the selection add
Bare(t) == [player |-> t.player, thesis_type |-> t.thesis_type, market |-> t.market,
            confidence |-> t.confidence]

NonRisk(theses) == SelectSeq(theses, LAMBDA t : t.thesis_type # "BlowoutRisk")

RECURSIVE PoolSizes(_)
PoolSizes(cats) ==
    IF cats = {} THEN 0
    ELSE LET c == CHOOSE x \in cats : TRUE
         IN  Len(categorized[c \o "_candidates"]) + PoolSizes(cats \ {c})

(***************************************************************************)
(* C13: categorize_theses places every non-risk thesis in at most one of   *)
(* the four candidate pools and no BlowoutRisk thesis in any pool, so no   *)
(* bucket returned by compose_recommendations or generate_multipla_dia     *)
(* holds a BlowoutRisk thesis.                                             *)
(***************************************************************************)
C13_RiskNeverInBuckets ==
    /\ DOMAIN categorized # {} =>
          /\ \A c \in CategorySet :
                 \A t \in Range(categorized[c \o "_candidates"]) :
                     /\ t.thesis_type # "BlowoutRisk"
                     /\ t.category = c
                     /\ \A d \in CategorySet \ {c} :
                            Bare(t) \notin {Bare(u) : u \in Range(categorized[d \o "_candidates"])}
          /\ PoolSizes(CategorySet) <= Len(NonRisk(all_theses))
    /\ \A c \in DOMAIN recommendations :
           \A r \in Range(recommendations[c]) : r.thesis_type # "BlowoutRisk"

\* an entry point has returned buckets for a list that holds a risk
\* thesis next to a thesis that was placed
C13_Witness ==
    /\ pc.at \in {"done", "multipla_done"}
    /\ \E t \in Range(all_theses) : t.thesis_type = "BlowoutRisk" /\ t.confidence = 75
    /\ \E c \in DOMAIN recommendations : recommendations[c] # <<>>

(***************************************************************************)
(* compose_recommendations as one function of its arguments: the result of *)
(* a call that runs alone on the engine                                    *)
(***************************************************************************)
RECURSIVE ComposeFrom(_, _, _, _)
ComposeFrom(i, cands, ctx, st) ==
    IF i > Len(Categories) THEN st
    ELSE LET category == Categories[i]
             r == select_for_category(cands[category \o "_candidates"], category,
                                      num_selections[category],
                                      st.used_players, st.used_teams, st.used_markets)
             a == AdjustAll(r.selected, ctx,
                            [recs |-> <<>>, used_teams |-> r.used_teams,
                             used_markets |-> r.used_markets])
             recs == IF a.recs # <<>> THEN WithStrategy(a.recs, ctx) ELSE a.recs
         IN  ComposeFrom(i + 1, cands, ctx,
                 [used_players |-> r.used_players,
                  used_teams |-> a.used_teams,
                  used_markets |-> a.used_markets,
                  recommendations |->
                      st.recommendations @@ (category :> Take(recs, bucket_slice[category]))])

compose_recommendations(theses, ctx) ==
    _ensure_cross_category_diversity(
        ComposeFrom(1, categorize_theses(theses), ctx,
                    [used_players |-> {}, used_teams |-> EmptyCounter,
                     used_markets |-> EmptyCounter,
                     recommendations |-> EmptyDict]).recommendations)

(***************************************************************************)
(* Two compose_recommendations calls for different games running on the    *)
(* same StrategyEngine.  Each call has its own locals (calls[c]); the      *)
(* engine's used_players, used_teams and used_markets are attributes of    *)
(* the one object.  A step is one method call of compose_recommendations.  *)
(***************************************************************************)
MaxConcurrentTheses == 2

Calls == {1, 2}

\* the theses of the two games: different players, different teams
GameTheses ==
    (1 :> { MkThesis("A", "BigRebound",  "REB", 70, "starter",  "T1", ThesisKeys),
            MkThesis("A", "PaceBoost",   "AST", 65, "starter",  "T1", ThesisKeys),
            MkThesis("B", "ValueHunter", "PRA", 60, "rotation", "T2", ThesisKeys) })
    @@
    (2 :> { MkThesis("D", "ScorerLine",  "PTS", 80, "starter",  "T3", ThesisKeys),
            MkThesis("E", "PaceBoost",   "PRA", 65, "rotation", "T4", ThesisKeys),
            MkThesis("E", "ValueHunter", "PTS", 60, "rotation", "T4", ThesisKeys) })

GameOf == (1 :> [spread |-> -3, pace |-> 102]) @@ (2 :> [spread |-> 7, pace |-> 98])

Call(a, c, theses, ctx, cands, sel, recs) ==
    [at |-> a, cat |-> c, all_theses |-> theses, game_ctx |-> ctx,
     categorized |-> cands, selected |-> sel, recommendations |-> recs]

ConcurrentInit ==
    /\ pc = At("concurrent", "")
    /\ calls \in [Calls -> UNION { { Call("start", "", t, GameOf[c], EmptyDict, <<>>, EmptyDict) :
                                        t \in SeqsUpTo(GameTheses[c], MaxConcurrentTheses) } :
                                   c \in Calls }]
    /\ \A c \in Calls : calls[c].game_ctx = GameOf[c]
    /\ used_players = {}
    /\ used_teams = EmptyCounter
    /\ used_markets = EmptyCounter
    /\ all_theses = <<>>
    /\ game_ctx = EmptyDict
    /\ categorized = EmptyDict
    /\ selected = <<>>
    /\ recommendations = EmptyDict
    /\ ThesisIdle
    /\ ContextIdle
    /\ RotationIdle /\ InjuryIdle
    /\ MultipleIdle

concurrentLocals == <<pc, game_ctx, all_theses, categorized, selected, recommendations>>

\* self.reset_selection() of call c
ConcurrentReset(c) ==
    /\ calls[c].at = "start"
    /\ used_players' = {}
    /\ used_teams' = EmptyCounter
    /\ used_markets' = EmptyCounter
    /\ calls' = [calls EXCEPT ![c].at = "categorize"]
    /\ UNCHANGED <<concurrentLocals, thesisVars, contextVars, rotationVars,
                   injuryVars, multipleVars>>

\* categorized = self.categorize_theses(all_theses, game_ctx) of call c
ConcurrentCategorize(c) ==
    /\ calls[c].at = "categorize"
    /\ calls' = [calls EXCEPT ![c].categorized = categorize_theses(calls[c].all_theses),
                              ![c].at = "select", ![c].cat = Categories[1]]
    /\ UNCHANGED <<engine, concurrentLocals, thesisVars, contextVars, rotationVars,
                   injuryVars, multipleVars>>

\* x = self.select_for_category(...) of call c
ConcurrentSelect(c) ==
    /\ calls[c].at = "select"
    /\ LET category == calls[c].cat
           r == select_for_category(calls[c].categorized[category \o "_candidates"], category,
                                    num_selections[category],
                                    used_players, used_teams, used_markets)
       IN  /\ calls' = [calls EXCEPT ![c].selected = r.selected, ![c].at = "adjust"]
           /\ used_players' = r.used_players
           /\ used_teams' = r.used_teams
           /\ used_markets' = r.used_markets
    /\ UNCHANGED <<concurrentLocals, thesisVars, contextVars, rotationVars,
                   injuryVars, multipleVars>>

\* the correlation adjustments, identify_strategy and the bucket slice of call c
ConcurrentAdjust(c) ==
    /\ calls[c].at = "adjust"
    /\ LET category == calls[c].cat
           i == CHOOSE k \in 1..Len(Categories) : Categories[k] = category
           a == AdjustAll(calls[c].selected, calls[c].game_ctx,
                          [recs |-> <<>>, used_teams |-> used_teams,
                           used_markets |-> used_markets])
           recs == IF a.recs # <<>> THEN WithStrategy(a.recs, calls[c].game_ctx) ELSE a.recs
       IN  /\ calls' = [calls EXCEPT
                 ![c].selected = recs,
                 ![c].recommendations = @ @@ (category :> Take(recs, bucket_slice[category])),
                 ![c].at = IF i < Len(Categories) THEN "select" ELSE "diversity",
                 ![c].cat = IF i < Len(Categories) THEN Categories[i + 1] ELSE ""]
           /\ used_teams' = a.used_teams
           /\ used_markets' = a.used_markets
    /\ UNCHANGED <<used_players, concurrentLocals, thesisVars, contextVars, rotationVars,
                   injuryVars, multipleVars>>

\* self._ensure_cross_category_diversity(recommendations); return recommendations
ConcurrentDiversity(c) ==
    /\ calls[c].at = "diversity"
    /\ calls' = [calls EXCEPT
           ![c].recommendations = _ensure_cross_category_diversity(@),
           ![c].at = "done"]
    /\ UNCHANGED <<engine, concurrentLocals, thesisVars, contextVars, rotationVars,
                   injuryVars, multipleVars>>

ConcurrentNext ==
    \E c \in Calls :
        \/ ConcurrentReset(c)
        \/ ConcurrentCategorize(c)
        \/ ConcurrentSelect(c)
        \/ ConcurrentAdjust(c)
        \/ ConcurrentDiversity(c)

SpecConcurrent == ConcurrentInit /\ [][ConcurrentNext]_vars

(***************************************************************************)
(* C11: when two compose_recommendations calls for different games run on  *)
(* the same StrategyEngine with their steps interleaved in any order, each *)
(* call returns exactly the buckets it returns when it runs alone.         *)
(***************************************************************************)
C11_ConcurrentCallsIndependent ==
    \A c \in DOMAIN calls :
        calls[c].at = "done" =>
            calls[c].recommendations =
                compose_recommendations(calls[c].all_theses, calls[c].game_ctx)

(***************************************************************************)
(* apply_correlation_adjustments on its own: one recommendation, any state *)
(* of the used_teams / used_markets counters, any spread.                  *)
(***************************************************************************)
Teams == {"T1", "T2", "T3"}
Markets == {"PTS", "REB", "AST"}

\* counters with any set of keys and counts 1..MaxCount
CountersOver(keys) ==
    UNION {[ks -> 1..MaxCount] : ks \in SUBSET keys}

RecommendationSample ==
    [player : {"A"}, thesis_type : {"ScorerLine"}, market : {"PTS", "REB"},
     confidence : {0, 65, 100}, player_team : {"T1"},
     player_role : {"starter", "bench"}]

CorrelationInit ==
    /\ pc = At("correlate", "")
    /\ all_theses = <<>>
    /\ game_ctx \in [spread : {-14, -3, 7}, pace : {100}]
    /\ used_players = {}
    /\ used_teams \in CountersOver(Teams)
    /\ used_markets \in CountersOver(Markets)
    /\ categorized = EmptyDict
    /\ selected \in {<<r>> : r \in RecommendationSample}
    /\ recommendations = EmptyDict
    /\ ThesisIdle
    /\ ContextIdle
    /\ RotationIdle /\ InjuryIdle
    /\ MultipleIdle
    /\ ConcurrentIdle

\* enhanced = self.apply_correlation_adjustments(recommendation, game_ctx)
Correlate ==
    /\ pc.at = "correlate"
    /\ LET a == apply_correlation_adjustments(selected[1], game_ctx, used_teams, used_markets)
       IN  /\ selected' = <<a.rec>>
           /\ used_teams' = a.used_teams
           /\ used_markets' = a.used_markets
    /\ pc' = At("correlated", "")
    /\ UNCHANGED <<all_theses, game_ctx, used_players, categorized, recommendations>>
    /\ UNCHANGED notCompose

SpecCorrelation == CorrelationInit /\ [][Correlate]_vars

(***************************************************************************)
(* C3: for every recommendation passed through                             *)
(* apply_correlation_adjustments, in any state of the counters and for any *)
(* spread, score_adjustment lies in [-0.3, +0.3] and adjusted_confidence   *)
(* in [0, 1].                                                              *)
(***************************************************************************)
C3_AdjustmentBounds ==
    pc.at = "correlated" =>
        /\ selected[1].score_adjustment >= -300
        /\ selected[1].score_adjustment <= 300
        /\ selected[1].adjusted_confidence >= 0
        /\ selected[1].adjusted_confidence <= 1000

\* all three penalties and no bonus: the raw sum -0.35 is cut to -0.3
C3_Witness ==
    /\ pc.at = "correlated"
    /\ RawAdjustment(selected[1], game_ctx, used_teams, used_markets) = -350
    /\ selected[1].score_adjustment = -300

(***************************************************************************)
(* ThesisEngine (thesis_engine.py).  Factors are integers in 1e-4          *)
(* (1.2 -> 12000), weights and multipliers in hundredths, the weighted     *)
(* base confidence in 1e-6 and the multiplied confidence in 1e-8; the      *)
(* returned confidence is in hundredths.  DvP values are in hundredths,    *)
(* pace, spread, usage, minutes and per-game stats are whole numbers.      *)
(* player_class is the set of probe words that occur in the class string:  *)
(* the code only ever asks `word in player_class`.                         *)
(***************************************************************************)
confidence_multipliers ==
    [BigRebound |-> 100, AssistMatchup |-> 100, ScorerLine |-> 100,
     ValueHunter |-> 90, PaceBoost |-> 85, BlowoutRisk |-> 80]

weights == [DvP |-> 30, Pace |-> 20, Role |-> 15, PlayerClass |-> 20, Usage |-> 15]

position_overrides ==
    [n \in {"LeBron James", "Nikola Jokic", "Luka Doncic", "Giannis Antetokounmpo"} |->
        CASE n = "LeBron James" -> "SF"
          [] n = "Nikola Jokic" -> "C"
          [] n = "Luka Doncic" -> "PG"
          [] OTHER -> "PF"]

thresholds == [high_pace |-> 100, big_spread |-> 12]

\* the same without the override table
get_player_position_NoOverride(player_name, default_pos) == default_pos

get_player_position(player_name, default_pos) ==
    IF player_name \in DOMAIN position_overrides
    THEN position_overrides[player_name] ELSE default_pos

\* calculate_dvp_factor(dvp_value, is_favorable=True), dvp_value in hundredths
calculate_dvp_factor(dvp_value) ==
    IF dvp_value > 100 THEN 10000 + (dvp_value - 100) * 30
    ELSE 7000 + dvp_value * 30

Factor(type, value) == [type |-> type, value |-> value]

\* the same with the default weight 0.1 for a factor type that is not in
\* the weight table
RECURSIVE WeightedConfidence_DefaultWeight(_, _)
WeightedConfidence_DefaultWeight(confidence_factors, base_confidence) ==
    IF confidence_factors = <<>> THEN base_confidence
    ELSE LET f == Head(confidence_factors)
         IN  WeightedConfidence_DefaultWeight(Tail(confidence_factors),
                 base_confidence + (f.value - 10000)
                     * (IF f.type \in DOMAIN weights THEN weights[f.type] ELSE 10))

\* base_confidence += (value - 1.0) * self.weights[factor_type], for the
\* factor types of the weight table only
RECURSIVE WeightedConfidence(_, _)
WeightedConfidence(confidence_factors, base_confidence) ==
    IF confidence_factors = <<>> THEN base_confidence
    ELSE LET f == Head(confidence_factors)
         IN  WeightedConfidence(Tail(confidence_factors),
                 IF f.type \in DOMAIN weights
                 THEN base_confidence + (f.value - 10000) * weights[f.type]
                 ELSE base_confidence)

\* base_confidence += (value - 1.0) * w, for every factor
RECURSIVE FlatConfidence(_, _, _)
FlatConfidence(confidence_factors, base_confidence, w) ==
    IF confidence_factors = <<>> THEN base_confidence
    ELSE FlatConfidence(Tail(confidence_factors),
                        base_confidence + (Head(confidence_factors).value - 10000) * w, w)

\* min(max(base_confidence * multiplier, 0), 1), in 1e-8
ClampConfidence(base_confidence, multiplier) ==
    Min2(Max2(base_confidence * multiplier, 0), 100000000)

\* round(confidence, 2): nearest hundredth; a value that sits exactly between
\* two hundredths in decimal is a binary float just above or just below the
\* midpoint, and goes to the neighbour chosen by `up`
Round2(confidence, up) ==
    LET q == confidence \div 1000000
        r == confidence % 1000000
    IN  IF r > 500000 \/ (r = 500000 /\ up) THEN q + 1 ELSE q


NoThesis == [thesis_type |-> "None"]

\* 'weights': {k: v for k, v in confidence_factors}
WeightsDict(confidence_factors) ==
    LET n == Len(confidence_factors)
        types == {confidence_factors[i].type : i \in 1..n}
        last(t) == CHOOSE i \in 1..n :
                      /\ confidence_factors[i].type = t
                      /\ \A j \in (i + 1)..n : confidence_factors[j].type # t
    IN  [t \in types |-> confidence_factors[last(t)].value]

\* the dict a generator returns; evidences holds the leading words of each
\* evidence string
Thesis(p, market, confidence, evidences, confidence_factors, thesis_type) ==
    [player |-> p.name, market |-> market, confidence |-> confidence,
     evidences |-> evidences, weights |-> WeightsDict(confidence_factors),
     thesis_type |-> thesis_type]

generate_big_rebound_thesis(p, g, up) ==
    LET pos == get_player_position(p.name, p.pos)
        player_class == p.player_class
        dvp == p.dvp_reb > 100
        fast == g.pace > thresholds.high_pace
        used == p.usg > 18
        confidence_factors ==
            Optional(dvp, Factor("DvP", calculate_dvp_factor(p.dvp_reb)))
            \o Optional(fast, Factor("Pace", Min2(10000 + (g.pace - 100) * 100, 13000)))
            \o <<Factor("Role", IF p.role = "starter" THEN 10000 ELSE 9000)>>
            \o <<Factor("PlayerClass",
                        IF "GLASS_BANGER" \in player_class THEN 12000 ELSE 10000)>>
            \o Optional(used, Factor("Usage", Min2(10000 + (p.usg - 18) * 100, 12000)))
        evidences ==
            Optional(dvp, "DvP REB") \o Optional(fast, "Pace alto") \o <<"Role">>
            \o Optional(used, "USG% adequado")
        confidence == ClampConfidence(WeightedConfidence(confidence_factors, 500000),
                                      confidence_multipliers.BigRebound)
    IN  IF pos \notin {"PF", "C"} THEN NoThesis
        ELSE IF "GLASS_BANGER" \notin player_class /\ "REBOUNDER" \notin player_class
        THEN NoThesis
        ELSE Thesis(p, "REB", Round2(confidence, up), evidences, confidence_factors,
                    "BigRebound")

generate_assist_matchup_thesis(p, g, up) ==
    LET pos == get_player_position(p.name, p.pos)
        player_class == p.player_class
        spread == Abs(g.spread)
        passer == p.ast_pct > 20
        dvp == p.dvp_ast > 100
        confidence_factors ==
            <<Factor("GameContext",
                     IF spread <= 5 THEN 12000 ELSE IF spread <= 8 THEN 10000 ELSE 8000)>>
            \o Optional(passer,
                        Factor("PlayerClass", Min2(10000 + (p.ast_pct - 20) * 100, 13000)))
            \o Optional(dvp, Factor("DvP", calculate_dvp_factor(p.dvp_ast)))
            \o <<Factor("Role", IF p.role = "starter" THEN 11000 ELSE 9000)>>
        evidences ==
            <<IF spread <= 5 THEN "Jogo parelho"
              ELSE IF spread <= 8 THEN "Spread moderado" ELSE "Spread alto">>
            \o Optional(passer, "AST% alto") \o Optional(dvp, "DvP AST")
        confidence == ClampConfidence(WeightedConfidence(confidence_factors, 500000),
                                      confidence_multipliers.AssistMatchup)
    IN  IF pos \notin {"PG", "SG"} THEN NoThesis
        ELSE IF "FLOOR_GENERAL" \notin player_class /\ "PLAYMAKER" \notin player_class
        THEN NoThesis
        ELSE Thesis(p, "AST", Round2(confidence, up), evidences, confidence_factors,
                    "AssistMatchup")

generate_scorer_line_thesis(p, g, up) ==
    LET pos == get_player_position(p.name, p.pos)
        player_class == p.player_class
        dvp == p.dvp_pts > 100
        used == p.usg > 22
        high == g.total > 225
        \* recent_ppg > season_ppg * 1.1
        hot == p.last_5_ppg * 10 > p.ppg * 11
        confidence_factors ==
            Optional(dvp, Factor("DvP", calculate_dvp_factor(p.dvp_pts)))
            \o Optional(used, Factor("Usage", Min2(10000 + (p.usg - 22) * 150, 13000)))
            \o <<Factor("PlayerClass", IF "SCORER" \in player_class THEN 12000 ELSE 10000)>>
            \o <<Factor("GameContext", IF high THEN 11000 ELSE 10000)>>
            \o <<Factor("Form", IF hot THEN 11500 ELSE 10000)>>
        evidences ==
            Optional(dvp, "DvP PTS") \o Optional(used, "USG% alto")
            \o Optional(high, "Total alto") \o Optional(hot, "Momentum positivo")
        confidence == ClampConfidence(WeightedConfidence(confidence_factors, 550000),
                                      confidence_multipliers.ScorerLine)
    IN  IF pos \notin {"SG", "SF"} THEN NoThesis
        ELSE IF /\ "SCORER" \notin player_class /\ "SHOOTER" \notin player_class
                /\ "VOLUME" \notin player_class
        THEN NoThesis
        ELSE Thesis(p, "PTS", Round2(confidence, up), evidences, confidence_factors,
                    "ScorerLine")

generate_value_hunter_thesis(p, g, up) ==
    LET min_avg == p.min_avg
        \* pra / min_avg in 1e-4
        pra_per_min == IF min_avg > 0 THEN (p.pra * 10000) \div min_avg ELSE 0
        efficient == pra_per_min > 8000
        \* last_5_min > min_avg * 1.1
        rising == p.last_5_min_avg * 10 > min_avg * 11
        spread == Abs(g.spread)
        garbage == spread > thresholds.big_spread
        player_class == p.player_class
        specialist == "BENCH" \in player_class \/ "SPARK" \in player_class
        confidence_factors ==
            Optional(efficient,
                     Factor("Efficiency", Min2(10000 + (pra_per_min - 8000) \div 2, 13000)))
            \o <<Factor("Trend", IF rising THEN 12000 ELSE 10000)>>
            \o <<Factor("GameContext", IF garbage THEN 11500 ELSE 10000)>>
            \o <<Factor("PlayerClass", IF specialist THEN 11500 ELSE 10000)>>
        evidences ==
            Optional(efficient, "PRA/min alto") \o Optional(rising, "Minutos crescentes")
            \o Optional(garbage, "Spread alto pode gerar garbage time")
            \o Optional(specialist, "Perfil de bench specialist")
        confidence == ClampConfidence(FlatConfidence(confidence_factors, 450000, 20),
                                      confidence_multipliers.ValueHunter)
    IN  IF p.role \notin {"bench", "rotation"} THEN NoThesis
        ELSE IF min_avg < 15 THEN NoThesis
        ELSE Thesis(p, "PRA", Round2(confidence, up), evidences, confidence_factors,
                    "ValueHunter")

pace_benefited == {"RUNNER", "TRANSITION", "ATHLETIC", "YOUNG"}

\* the same with a multiplier of 1.0
PaceBoostConfidence_Unscaled(confidence_factors) ==
    ClampConfidence(FlatConfidence(confidence_factors, 500000, 25), 100)

\* base_confidence = 0.5; base_confidence += (value - 1.0) * 0.25 for every
\* factor; confidence = min(max(base_confidence * multiplier, 0), 1)
PaceBoostConfidence(confidence_factors) ==
    ClampConfidence(FlatConfidence(confidence_factors, 500000, 25),
                    confidence_multipliers.PaceBoost)

generate_pace_boost_thesis(p, g, up) ==
    LET pace == g.pace
        player_class == p.player_class
        pos == get_player_position(p.name, p.pos)
        confidence_factors ==
            <<Factor("Pace", Min2(10000 + (pace - 100) * 100, 13000)),
              Factor("Matchup", 11000),
              Factor("Position", IF pos \in {"PG", "SG"} THEN 11000
                                 ELSE IF pos \in {"SF"} THEN 10500 ELSE 10000)>>
        evidences == <<"Pace muito alto", "Perfil beneficiado por jogo rapido">>
        market == IF "PASS" \in player_class \/ "PLAYMAKER" \in player_class THEN "AST"
                  ELSE IF "SCORER" \in player_class THEN "PTS" ELSE "PRA"
        confidence == PaceBoostConfidence(confidence_factors)
    IN  IF pace < thresholds.high_pace THEN NoThesis
        ELSE IF pace_benefited \cap player_class = {} THEN NoThesis
        ELSE Thesis(p, market, Round2(confidence, up), evidences, confidence_factors,
                    "PaceBoost")

\* the same with no adjustment for role or side
risk_factor_Flat(role, is_underdog) == 10000

risk_factor(role, is_underdog) ==
    IF role = "starter" /\ is_underdog THEN 7000
    ELSE IF role = "starter" THEN 8500
    ELSE IF role \in {"bench", "rotation"} /\ ~is_underdog THEN 11000
    ELSE 10000

generate_blowout_risk_thesis(p, g) ==
    LET spread == Abs(g.spread)
        is_underdog == \/ (p.team = g.home_team /\ g.spread > 0)
                       \/ (p.team = g.away_team /\ g.spread < 0)
        role == p.role
        confidence_factors == <<Factor("BlowoutRisk", risk_factor(role, is_underdog))>>
        evidences ==
            Optional(role = "starter" /\ is_underdog, "Starter em time underdog")
            \o Optional(role = "starter" /\ ~is_underdog, "Starter em jogo com blowout")
            \o Optional(role \in {"bench", "rotation"} /\ ~is_underdog,
                        "Bench em time favorito")
            \o <<"Spread muito alto">>
    IN  IF spread < thresholds.big_spread THEN NoThesis
        ELSE [player |-> p.name, market |-> "RISK", confidence |-> 30,
              evidences |-> evidences, weights |-> WeightsDict(confidence_factors),
              thesis_type |-> "BlowoutRisk", is_risk |-> TRUE]

ThesisTypes ==
    <<"BigRebound", "AssistMatchup", "ScorerLine", "ValueHunter", "PaceBoost", "BlowoutRisk">>

\* thesis_generators[i](player_ctx, game_ctx)
RunGenerator(i, p, g, up) ==
    CASE i = 1 -> generate_big_rebound_thesis(p, g, up)
      [] i = 2 -> generate_assist_matchup_thesis(p, g, up)
      [] i = 3 -> generate_scorer_line_thesis(p, g, up)
      [] i = 4 -> generate_value_hunter_thesis(p, g, up)
      [] i = 5 -> generate_pace_boost_thesis(p, g, up)
      [] OTHER -> generate_blowout_risk_thesis(p, g)

\* thesis.get('confidence', 0) > 0.4 or thesis.get('thesis_type') == 'BlowoutRisk'
KeepThesis_Any(thesis) == TRUE
KeepThesis_NoRiskExemption(thesis) == thesis.confidence > 40
KeepThesis(thesis) == thesis.confidence > 40 \/ thesis.thesis_type = "BlowoutRisk"

\* the for loop of generate_all_theses; ups[i] is the rounding of generator i
RECURSIVE GeneratedFrom(_, _, _, _)
GeneratedFrom(i, p, g, ups) ==
    IF i > Len(ThesisTypes) THEN <<>>
    ELSE LET thesis == RunGenerator(i, p, g, ups[i])
         IN  (IF thesis # NoThesis /\ KeepThesis(thesis) THEN <<thesis>> ELSE <<>>)
             \o GeneratedFrom(i + 1, p, g, ups)

\* theses.sort(key=lambda x: x['confidence'], reverse=True): stable, descending
RECURSIVE InsertByConfidence(_, _)
InsertByConfidence(x, s) ==
    IF s = <<>> THEN <<x>>
    ELSE IF Head(s).confidence >= x.confidence THEN <<Head(s)>> \o InsertByConfidence(x, Tail(s))
    ELSE <<x>> \o s

RECURSIVE SortByConfidence(_)
SortByConfidence(s) ==
    IF s = <<>> THEN <<>>
    ELSE InsertByConfidence(s[Len(s)], SortByConfidence(SubSeq(s, 1, Len(s) - 1)))

generate_all_theses(p, g, ups) ==
    Take(SortByConfidence(GeneratedFrom(1, p, g, ups)), 3)

(***************************************************************************)
(* ThesisEngine.generate_all_theses for one player of one game             *)
(***************************************************************************)
ClassSamples ==
    { {}, {"GLASS_BANGER", "RUNNER"}, {"REBOUNDER"},
      {"PLAYMAKER", "SCORER", "VOLUME", "ATHLETIC"}, {"BENCH", "SPARK", "SHOOTER"} }

PlayerSamples ==
    [name : {"X", "LeBron James"}, pos : {"PF", "SG"}, player_class : ClassSamples,
     role : {"starter", "rotation", "bench"}, team : {"T1"},
     dvp_reb : {90, 130}, dvp_ast : {120}, dvp_pts : {110},
     usg : {15, 45}, ast_pct : {35},
     min_avg : {10, 20}, pra : {12, 30}, last_5_min_avg : {20, 25},
     ppg : {20}, last_5_ppg : {25}]

GameSamples ==
    [spread : {-14, -3, 12}, pace : {95, 100, 135}, total : {230},
     home_team : {"T1"}, away_team : {"T2"}]

ThesisInit ==
    /\ pc = At("generate", "")
    /\ player_ctx \in PlayerSamples
    /\ game_ctx \in GameSamples
    /\ generated_theses = <<>>
    /\ players_data = <<>>
    /\ ComposeIdle
    /\ ContextIdle
    /\ RotationIdle /\ InjuryIdle
    /\ MultipleIdle
    /\ ConcurrentIdle

\* theses = engine.generate_all_theses(player_ctx, game_ctx)
GenerateAllTheses ==
    /\ pc.at = "generate"
    /\ \E ups \in [1..Len(ThesisTypes) -> BOOLEAN] :
           generated_theses' = generate_all_theses(player_ctx, game_ctx, ups)
    /\ pc' = At("generated", "")
    /\ UNCHANGED <<player_ctx, players_data, game_ctx>>
    /\ UNCHANGED notThesis

SpecThesis == ThesisInit /\ [][GenerateAllTheses]_vars

(***************************************************************************)
(* C4: every thesis in the list returned by generate_all_theses either has *)
(* 0.4 < confidence <= 1.0, or is a BlowoutRisk thesis with confidence     *)
(* exactly 0.3, market RISK and is_risk true.                              *)
(***************************************************************************)
C4_ThesisConfidence ==
    pc.at = "generated" =>
        \A i \in 1..Len(generated_theses) :
            LET t == generated_theses[i]
            IN  \/ (40 < t.confidence /\ t.confidence <= 100)
                \/ /\ t.thesis_type = "BlowoutRisk"
                   /\ t.confidence = 30
                   /\ t.market = "RISK"
                   /\ "is_risk" \in DOMAIN t
                   /\ t.is_risk = TRUE

\* a returned list that holds both a BlowoutRisk thesis and a thesis just
\* above the 0.4 threshold
C4_Witness ==
    /\ pc.at = "generated"
    /\ \E i \in 1..Len(generated_theses) : generated_theses[i].thesis_type = "BlowoutRisk"
    /\ \E i \in 1..Len(generated_theses) : generated_theses[i].confidence = 41

\* the player's BlowoutRisk thesis is in the returned list
HasBlowoutRisk ==
    \E i \in 1..Len(generated_theses) :
        /\ generated_theses[i].thesis_type = "BlowoutRisk"
        /\ generated_theses[i].player = player_ctx.name

(***************************************************************************)
(* C12 as stated: for every player and every game with spread magnitude    *)
(* at least 12, the list returned by generate_all_theses contains the      *)
(* player's BlowoutRisk thesis, however many other theses the player       *)
(* qualifies for.                                                          *)
(***************************************************************************)
C12_BlowoutRiskAlwaysKept ==
    (pc.at = "generated" /\ Abs(game_ctx.spread) >= thresholds.big_spread)
        => HasBlowoutRisk

(***************************************************************************)
(* C12 amended: for every game with spread magnitude at least 12 the       *)
(* BlowoutRisk thesis passes the confidence filter, and it is missing from *)
(* the returned list only when the top-3 cut removed it: the list then     *)
(* holds three theses of confidence above 0.4.  When it is returned it is  *)
(* the last element.                                                       *)
(***************************************************************************)
C12_BlowoutRiskKeptUpToTruncation ==
    (pc.at = "generated" /\ Abs(game_ctx.spread) >= thresholds.big_spread)
        => \/ /\ HasBlowoutRisk
              /\ generated_theses[Len(generated_theses)].thesis_type = "BlowoutRisk"
           \/ /\ Len(generated_theses) = 3
              /\ \A i \in 1..3 : /\ generated_theses[i].confidence > 40
                                  /\ generated_theses[i].thesis_type # "BlowoutRisk"

\* a blowout game in which the player has two other theses and the
\* BlowoutRisk thesis is returned third
C12_Witness ==
    /\ pc.at = "generated"
    /\ Abs(game_ctx.spread) >= thresholds.big_spread
    /\ Len(generated_theses) = 3
    /\ generated_theses[3].thesis_type = "BlowoutRisk"

(***************************************************************************)
(* One thesis generator called on its own for one player of one game       *)
(***************************************************************************)
GeneratorPlayers ==
    [name : {"X", "LeBron James", "Nikola Jokic"}, pos : {"PF", "C", "SG"},
     player_class : { {}, {"GLASS_BANGER"}, {"REBOUNDER", "RUNNER"}, {"SCORER", "BENCH"} },
     role : {"starter", "rotation", "bench", "deep_bench"}, team : {"T1", "T2"},
     dvp_reb : {90, 100, 120}, dvp_ast : {120}, dvp_pts : {110},
     usg : {15, 45}, ast_pct : {35},
     min_avg : {20}, pra : {30}, last_5_min_avg : {25},
     ppg : {20}, last_5_ppg : {25}]

GeneratorGames ==
    [spread : {-20, -12, -3, 11, 20}, pace : {95, 100, 105}, total : {230},
     home_team : {"T1"}, away_team : {"T2"}]

GeneratorInit ==
    /\ pc = At("generate", "")
    /\ player_ctx \in GeneratorPlayers
    /\ game_ctx \in GeneratorGames
    /\ generated_theses = <<>>
    /\ players_data = <<>>
    /\ ComposeIdle
    /\ ContextIdle
    /\ RotationIdle /\ InjuryIdle
    /\ MultipleIdle
    /\ ConcurrentIdle

\* thesis = generator(player_ctx, game_ctx); a None result leaves the list empty
RunThesisGenerator(i) ==
    /\ pc.at = "generate"
    /\ \E up \in BOOLEAN :
           LET thesis == RunGenerator(i, player_ctx, game_ctx, up)
           IN  generated_theses' = IF thesis = NoThesis THEN <<>> ELSE <<thesis>>
    /\ pc' = At("generator", ThesisTypes[i])
    /\ UNCHANGED <<player_ctx, players_data, game_ctx>>
    /\ UNCHANGED notThesis

SpecGenerator ==
    GeneratorInit /\ [][\E i \in 1..Len(ThesisTypes) : RunThesisGenerator(i)]_vars

\* the position of the player after the manual overrides of the engine
OverriddenPosition ==
    CASE player_ctx.name = "LeBron James" -> "SF"
      [] player_ctx.name = "Nikola Jokic" -> "C"
      [] player_ctx.name = "Luka Doncic" -> "PG"
      [] player_ctx.name = "Giannis Antetokounmpo" -> "PF"
      [] OTHER -> player_ctx.pos

(***************************************************************************)
(* C16: generate_big_rebound_thesis returns a thesis with market REB for   *)
(* every player whose position, after the manual overrides, is PF or C and *)
(* whose class contains GLASS_BANGER or REBOUNDER, and returns None for    *)
(* every other player; the evidence list holds a pace entry whenever the   *)
(* game pace is above 100 and a DvP entry whenever dvp_reb is above 1.0.   *)
(***************************************************************************)
C16_BigReboundEligibility ==
    pc = At("generator", "BigRebound") =>
        IF /\ OverriddenPosition \in {"PF", "C"}
           /\ player_ctx.player_class \cap {"GLASS_BANGER", "REBOUNDER"} # {}
        THEN /\ Len(generated_theses) = 1
             /\ generated_theses[1].market = "REB"
             /\ generated_theses[1].player = player_ctx.name
             /\ game_ctx.pace > 100 =>
                    \E k \in 1..Len(generated_theses[1].evidences) :
                        generated_theses[1].evidences[k] = "Pace alto"
             /\ player_ctx.dvp_reb > 100 =>
                    \E k \in 1..Len(generated_theses[1].evidences) :
                        generated_theses[1].evidences[k] = "DvP REB"
        ELSE generated_theses = <<>>

\* the PF / GLASS_BANGER / starter / dvp_reb 1.2 / pace 105 / spread -3 case
C16_Witness ==
    /\ pc = At("generator", "BigRebound")
    /\ player_ctx.name = "X" /\ player_ctx.pos = "PF"
    /\ player_ctx.player_class = {"GLASS_BANGER"} /\ player_ctx.role = "starter"
    /\ player_ctx.dvp_reb = 120 /\ game_ctx.pace = 105 /\ game_ctx.spread = -3
    /\ Len(generated_theses) = 1
    /\ generated_theses[1].market = "REB"
    /\ generated_theses[1].evidences[1] = "DvP REB"
    /\ generated_theses[1].evidences[2] = "Pace alto"

\* the team the spread makes the underdog
Underdog == IF game_ctx.spread > 0 THEN game_ctx.home_team
            ELSE IF game_ctx.spread < 0 THEN game_ctx.away_team ELSE ""

lower_map ==
    [A |-> "a", B |-> "b", C |-> "c", D |-> "d", E |-> "e", F |-> "f", G |-> "g",
     H |-> "h", I |-> "i", J |-> "j", K |-> "k", L |-> "l", M |-> "m", N |-> "n",
     O |-> "o", P |-> "p", Q |-> "q", R |-> "r", S |-> "s", T |-> "t", U |-> "u",
     V |-> "v", W |-> "w", X |-> "x", Y |-> "y", Z |-> "z"]

\* str.lower()
Lower(s) == [i \in 1..Len(s) |-> IF s[i] \in DOMAIN lower_map THEN lower_map[s[i]] ELSE s[i]]

\* k in s
Contains(s, k) ==
    \E i \in 1..(Len(s) - Len(k) + 1) : SubSeq(s, i, i + Len(k) - 1) = k

kw_out == <<"o", "u", "t">>
kw_ir == <<"i", "r">>
kw_injur == <<"i", "n", "j", "u", "r">>
kw_injured == <<"i", "n", "j", "u", "r", "e", "d">>
kw_active == <<"a", "c", "t", "i", "v", "e">>
kw_available == <<"a", "v", "a", "i", "l", "a", "b", "l", "e">>

Str(s) == [t |-> "str", s |-> s]
None == [t |-> "None"]
Num(n) == [t |-> "num", n |-> n]
\* a truthy value that is neither a string nor a number nor a mapping
Other == [t |-> "other"]

\* dict.get(key, default) on a record of tagged values
GetOr(d, key, default) == IF key \in DOMAIN d THEN d[key] ELSE default

\* (roster_entry.get("STATUS") or "").lower() raises on a truthy non-string
StatusRaises(roster_entry) == GetOr(roster_entry, "STATUS", None).t \notin {"str", "None"}
StatusLower(roster_entry) ==
    LET v == GetOr(roster_entry, "STATUS", None)
    IN  IF v.t = "str" THEN Lower(v.s) ELSE <<>>

\* float(df_l5_row.get(key, 0)) raises on a value that is not a number
FloatRaises(df_l5_row, key) == GetOr(df_l5_row, key, Num(0)).t # "num"
FloatOf(df_l5_row, key) == GetOr(df_l5_row, key, Num(0)).n

\* x * 0.8, x * 0.9, x * 0.6 on hundredths of a minute
Scaled(x, tenths) == (x * tenths) \div 10

OutKeywords_NoIr == {kw_out, kw_injur}
OutKeywords == {kw_out, kw_ir, kw_injur}

\* derive_availability_and_expected_minutes(roster_entry, df_l5_row,
\*                                          treat_unknown_as_available)
derive_availability_and_expected_minutes(roster_entry, df_l5_row, treat_unknown_as_available) ==
    LET status == StatusLower(roster_entry)
        starter == GetOr(roster_entry, "STARTER", FALSE)
        min_avg == IF df_l5_row # None THEN FloatOf(df_l5_row, "MIN_AVG") ELSE 0
        last_min == IF df_l5_row # None THEN FloatOf(df_l5_row, "LAST_MIN") ELSE 0
        raised == \/ roster_entry.t # "dict"
                  \/ StatusRaises(roster_entry)
                  \/ df_l5_row.t \notin {"dict", "None"}
                  \/ (df_l5_row # None /\ (\/ FloatRaises(df_l5_row, "MIN_AVG")
                                            \/ FloatRaises(df_l5_row, "LAST_MIN")))
        r == IF \E k \in OutKeywords : Contains(status, k)
             THEN [availability |-> "out", expected_minutes |-> 0]
             ELSE IF starter
             THEN [availability |-> "available",
                   expected_minutes |-> Max2(min_avg, Max2(last_min, 2800))]
             ELSE IF status # <<>> /\ (Contains(status, kw_active) \/ Contains(status, kw_available))
             THEN [availability |-> "available",
                   expected_minutes |-> Max2(Scaled(min_avg, 8), Scaled(last_min, 9))]
             ELSE [availability |-> "probable",
                   expected_minutes |-> IF treat_unknown_as_available
                                        THEN Max2(Scaled(min_avg, 8), Scaled(last_min, 6))
                                        ELSE Scaled(min_avg, 6)]
    IN  IF raised THEN [raised |-> TRUE]
        ELSE [raised |-> FALSE, availability |-> r.availability,
              expected_minutes |-> Max2(0, r.expected_minutes)]

upper_map ==
    [a |-> "A", b |-> "B", c |-> "C", d |-> "D", e |-> "E", f |-> "F", g |-> "G",
     h |-> "H", i |-> "I", j |-> "J", k |-> "K", l |-> "L", m |-> "M", n |-> "N",
     o |-> "O", p |-> "P", q |-> "Q", r |-> "R", s |-> "S", t |-> "T", u |-> "U",
     v |-> "V", w |-> "W", x |-> "X", y |-> "Y", z |-> "Z"]

\* str.upper()
Upper(s) == [i \in 1..Len(s) |-> IF s[i] \in DOMAIN upper_map THEN upper_map[s[i]] ELSE s[i]]

\* x or "": None and the empty string give ""
OrEmpty(v) == IF v.t = "None" THEN Str(<<>>) ELSE v

\* (roster_entry.get("POSITION", "") or "").upper() raises on a truthy non-string
PositionRaises(roster_entry) ==
    OrEmpty(GetOr(roster_entry, "POSITION", Str(<<>>))).t # "str"
PositionUpper(roster_entry) == Upper(OrEmpty(GetOr(roster_entry, "POSITION", Str(<<>>))).s)

StatKeys == {"MIN_AVG", "REB_AVG", "AST_AVG", "PTS_AVG", "PRA_AVG"}

\* the statements of the try block of build_player_ctx that can raise
BuildRaises(roster_entry, df_l5_row, team_context, opponent_context) ==
    \/ roster_entry.t # "dict"
    \/ PositionRaises(roster_entry)
    \/ df_l5_row.t \notin {"dict", "None"}
    \/ (df_l5_row.t = "dict" /\ \E key \in StatKeys : FloatRaises(df_l5_row, key))
    \/ derive_availability_and_expected_minutes(roster_entry, df_l5_row, TRUE).raised
    \/ team_context.t # "dict"
    \/ opponent_context.t # "dict"

\* the dict the except branch returns, or {} when building it raises too
MinimalContext(roster_entry, team_context) ==
    IF roster_entry.t # "dict" \/ team_context.t # "dict" \/ PositionRaises(roster_entry)
    THEN EmptyDict
    ELSE [name |-> GetOr(roster_entry, "PLAYER", ""),
          team |-> team_context.team_abbr,
          position |-> PositionUpper(roster_entry),
          is_starter |-> GetOr(roster_entry, "STARTER", FALSE),
          status |-> GetOr(roster_entry, "STATUS", Str(<<>>)),
          min_L5 |-> 0, pts_L5 |-> 0, reb_L5 |-> 0, ast_L5 |-> 0, pra_L5 |-> 0,
          expected_minutes |-> 0]

build_player_ctx(roster_entry, df_l5_row, team_context, opponent_context) ==
    IF BuildRaises(roster_entry, df_l5_row, team_context, opponent_context)
    THEN MinimalContext(roster_entry, team_context)
    ELSE LET starter == GetOr(roster_entry, "STARTER", FALSE)
             hasrow == df_l5_row # None
             min_L5 == IF hasrow THEN FloatOf(df_l5_row, "MIN_AVG") ELSE 0
             reb_L5 == IF hasrow THEN FloatOf(df_l5_row, "REB_AVG") ELSE 0
             ast_L5 == IF hasrow THEN FloatOf(df_l5_row, "AST_AVG") ELSE 0
             pts_L5 == IF hasrow THEN FloatOf(df_l5_row, "PTS_AVG") ELSE 0
             pra_L5 == IF hasrow
                       THEN GetOr(df_l5_row, "PRA_AVG", Num(pts_L5 + reb_L5 + ast_L5)).n
                       ELSE 0
             derived == derive_availability_and_expected_minutes(roster_entry, df_l5_row, TRUE)
             usage == IF pra_L5 >= 3000 THEN "high" ELSE IF pra_L5 >= 1800 THEN "medium" ELSE "low"
             role == IF starter /\ usage = "high" THEN "star"
                     ELSE IF starter /\ usage # "low" THEN "starter"
                     ELSE IF ~starter /\ usage = "high" THEN "bench_scorer"
                     ELSE IF ~starter /\ usage = "medium" THEN "rotation"
                     ELSE "deep_bench"
         IN  [name |-> GetOr(roster_entry, "PLAYER", ""),
              team |-> team_context.team_abbr,
              position |-> PositionUpper(roster_entry),
              is_starter |-> starter,
              status |-> OrEmpty(GetOr(roster_entry, "STATUS", None)),
              min_L5 |-> min_L5, expected_minutes |-> derived.expected_minutes,
              pts_L5 |-> pts_L5, reb_L5 |-> reb_L5, ast_L5 |-> ast_L5, pra_L5 |-> pra_L5,
              usage |-> usage, role |-> role]

(***************************************************************************)
(* Enhancer stages: PaceAdjuster.adjust_player_stats (pace_adjuster.py),   *)
(* VacuumMatrixAnalyzer.apply_vacuum_boost (vacuum_matrix.py) and          *)
(* RotationAnalyzer.enhance_player_context (rotation_analyzer.py).         *)
(* Team paces are in tenths (101.2 -> 1012), boosts in hundredths.         *)
(***************************************************************************)
\* d[k] = v
Put(d, k, v) == (k :> v) @@ d

\* round(n / d) to the nearest integer; a decimal tie goes to the neighbour
\* chosen by `up`.  round(x, 1) of a value in hundredths is 10 * RoundTie(x, 10, up)
RoundTie(n, d, up) ==
    LET q == n \div d
        r == n % d
    IN  IF 2 * r > d \/ (2 * r = d /\ up) THEN q + 1 ELSE q

volume_stats == <<"pts_L5", "reb_L5", "ast_L5", "pra_L5">>

\* part of TEAM_PACE_DATA
pace_data == [BOS |-> 998, DEN |-> 1021, SAC |-> 1031]

\* the same with 101.0 for a team that is not rated
PaceSum_Default101(home_team, away_team) ==
    GetOr(pace_data, home_team, 1010) + GetOr(pace_data, away_team, 1010)

\* home_pace + away_pace, each self.pace_data.get(team, 100.0)
PaceSum(home_team, away_team) ==
    GetOr(pace_data, home_team, 1000) + GetOr(pace_data, away_team, 1000)

RECURSIVE PaceAdjustStats(_, _, _, _)
PaceAdjustStats(adjusted, i, pace_sum, ups) ==
    IF i > Len(volume_stats) THEN adjusted
    ELSE LET stat == volume_stats[i]
         IN  PaceAdjustStats(
                 IF stat \in DOMAIN adjusted /\ adjusted[stat] > 0
                 THEN Put(adjusted, stat,
                          10 * RoundTie(adjusted[stat] * pace_sum, 20000, ups[i]))
                 ELSE adjusted,
                 i + 1, pace_sum, ups)

\* PaceAdjuster.adjust_player_stats(player_stats, home_team, away_team)
adjust_player_stats(player_stats, home_team, away_team, ups) ==
    IF DOMAIN player_stats = {} \/ home_team = "" \/ away_team = "" THEN player_stats
    ELSE LET pace_sum == PaceSum(home_team, away_team)
             adjusted == PaceAdjustStats(player_stats, 1, pace_sum, ups)
         IN  Put(Put(Put(adjusted, "pace_adjusted", TRUE),
                     "game_pace", RoundTie(pace_sum, 2, ups[1])),
                 "pace_factor", RoundTie(pace_sum, 2, ups[2]))

RECURSIVE BoostStats(_, _, _, _)
BoostStats(ctx, i, boost, ups) ==
    IF i > Len(volume_stats) THEN ctx
    ELSE LET stat == volume_stats[i]
         IN  BoostStats(IF stat \in DOMAIN ctx
                        THEN Put(ctx, stat, 10 * RoundTie(ctx[stat] * boost, 1000, ups[i]))
                        ELSE ctx,
                        i + 1, boost, ups)

\* VacuumMatrixAnalyzer.apply_vacuum_boost(player_ctx, vacuum_data)
apply_vacuum_boost(ctx, vacuum_data, ups) ==
    IF DOMAIN ctx = {} \/ DOMAIN vacuum_data = {} THEN ctx
    ELSE IF GetOr(ctx, "name", "None") \in DOMAIN vacuum_data
    THEN LET boost_info == vacuum_data[ctx.name]
         IN  Put(BoostStats(ctx, 1, boost_info.boost, ups), "vacuum_boost",
                 [active |-> TRUE, boost_factor |-> boost_info.boost,
                  reason |-> boost_info.reason, replaces |-> boost_info.absent_starter])
    ELSE ctx

\* RotationAnalyzer._infer_rotation_role(player_ctx)
_infer_rotation_role(ctx) ==
    LET minutes == GetOr(ctx, "min_L5", 0)
        starter == GetOr(ctx, "is_starter", FALSE)
        role == IF starter /\ minutes >= 2800 THEN "starter"
                ELSE IF minutes >= 2000 THEN "rotation"
                ELSE IF minutes >= 1200 THEN "bench"
                ELSE "deep_bench"
    IN  Put(Put(ctx, "rotation_role", role), "rotation_confidence", 60)

\* max() of the impact strings, in string order
ImpactRank == [high |-> 1, low |-> 2, medium |-> 3]
MaxImpact(shocks) ==
    CHOOSE a \in {shocks[i].impact : i \in 1..Len(shocks)} :
        \A i \in 1..Len(shocks) : ImpactRank[shocks[i].impact] <= ImpactRank[a]

\* the `if cache_key and cache_key in self.rotation_signals` block
WithSignals(ctx, signals, player_key, team) ==
    LET role_info == GetOr(signals.role_definitions, player_key, None)
        c1 == IF role_info # None
              THEN Put(Put(Put(ctx, "rotation_role", role_info.role),
                           "rotation_minutes_avg", role_info.avg_minutes),
                       "rotation_confidence",
                       IF role_info.role = "starter" THEN role_info.starter_confidence ELSE 70)
              ELSE ctx
        minutes_proj == GetOr(signals.minutes_projections, player_key, None)
        c2 == IF minutes_proj # None
              THEN Put(Put(c1, "expected_minutes",
                           Max2(GetOr(c1, "expected_minutes", 0),
                                minutes_proj.projected_minutes)),
                       "rotation_confidence",
                       Max2(GetOr(c1, "rotation_confidence", 0), minutes_proj.confidence))
              ELSE c1
        ceiling_ind == GetOr(signals.ceiling_indicators, player_key, None)
        c3 == IF ceiling_ind # None
              THEN Put(Put(Put(c2, "lineup_ceiling_factor", ceiling_ind.ceiling_factor),
                           "best_lineup_minutes", ceiling_ind.minutes_together),
                       "best_lineup_rating", ceiling_ind.net_rating)
              ELSE c2
        shocks == signals.lineup_shocks
        player_shocks == SelectSeq(shocks,
                             LAMBDA shock : shock.team = team /\ shock.player = player_key)
    IN  IF player_shocks # <<>>
        THEN Put(Put(c3, "lineup_shocks", player_shocks),
                 "lineup_shock_level", MaxImpact(player_shocks))
        ELSE c3

\* RotationAnalyzer.enhance_player_context(player_ctx, matchup_context)
enhance_player_context(ctx, matchup_context, signals_cache) ==
    LET team == GetOr(ctx, "team", "None")
        name == GetOr(ctx, "name", "None")
        player_key == team \o "_" \o name
        cache_key == GetOr(matchup_context, "cache_key", "")
        c == IF cache_key # "" /\ cache_key \in DOMAIN signals_cache
             THEN WithSignals(ctx, signals_cache[cache_key].signals, player_key, team)
             ELSE ctx
    IN  IF "rotation_role" \notin DOMAIN c THEN _infer_rotation_role(c) ELSE c

(***************************************************************************)
(* derive_availability_and_expected_minutes over every short status string *)
(***************************************************************************)
StatusAlphabet == {"o", "u", "t", "O", "T", "i", "r", "I", "R", "a", " "}

NamedStatuses ==
    { <<"I", "n", "j", "u", "r", "e", "d">>, <<"I", "N", "J", "U", "R", "Y">>,
      <<"A", "c", "t", "i", "v", "e">>, <<"a", "v", "a", "i", "l", "a", "b", "l", "e">>,
      <<"P", "r", "o", "b", "a", "b", "l", "e">>, <<"D", "a", "y", "-", "T", "o", "-", "D", "a", "y">> }

StatusStrings == SeqsUpTo(StatusAlphabet, MaxStatusLen) \cup NamedStatuses

MinuteRows ==
    {None} \cup
    { [t |-> "dict", MIN_AVG |-> Num(a), LAST_MIN |-> Num(l)] : a \in {0, 2050, 3400}, l \in {0, 3600} }

AvailabilityInit ==
    /\ pc = At("derive", "")
    /\ build_args \in
           [roster_entry : {[t |-> "dict", STATUS |-> Str(s), STARTER |-> b] :
                               s \in StatusStrings, b \in BOOLEAN},
            df_l5_row : MinuteRows,
            treat_unknown_as_available : BOOLEAN]
    /\ derive_result = None
    /\ player_context = EmptyDict
    /\ rotation_signals = EmptyDict
    /\ enhance_args = EmptyDict
    /\ stages = 0
    /\ ComposeIdle /\ ThesisIdle /\ RotationIdle /\ InjuryIdle /\ MultipleIdle /\ game_ctx = EmptyDict
    /\ ConcurrentIdle

\* derived = derive_availability_and_expected_minutes(roster_entry, df_l5_row, ...)
DeriveAvailability ==
    /\ pc.at = "derive"
    /\ derive_result' = derive_availability_and_expected_minutes(
                      build_args.roster_entry, build_args.df_l5_row,
                      build_args.treat_unknown_as_available)
    /\ pc' = At("derived", "")
    /\ UNCHANGED <<build_args, player_context, rotation_signals, enhance_args, stages>>
    /\ UNCHANGED notContext

SpecAvailability == AvailabilityInit /\ [][DeriveAvailability]_vars

(***************************************************************************)
(* C5: derive_availability_and_expected_minutes returns availability 'out' *)
(* and expected_minutes 0 for every roster entry whose lower-cased status  *)
(* contains 'out', 'ir' or 'injur', whatever the starter flag and the      *)
(* recent minutes are; and a returned availability 'out' always comes with *)
(* expected_minutes 0.                                                     *)
(***************************************************************************)
C5_OutMeansZeroMinutes ==
    pc.at = "derived" =>
        LET status == Lower(build_args.roster_entry.STATUS.s)
        IN  /\ ~derive_result.raised
            /\ (Contains(status, kw_out) \/ Contains(status, kw_ir) \/ Contains(status, kw_injur))
                   => (derive_result.availability = "out" /\ derive_result.expected_minutes = 0)
            /\ derive_result.availability = "out" => derive_result.expected_minutes = 0

\* a starter with recent minutes whose status "IR" is matched only after
\* lower-casing
C5_Witness ==
    /\ pc.at = "derived"
    /\ build_args.roster_entry.STATUS.s = <<"I", "R">>
    /\ build_args.roster_entry.STARTER
    /\ build_args.df_l5_row # None
    /\ build_args.df_l5_row.MIN_AVG.n = 3400
    /\ derive_result.availability = "out"
    /\ derive_result.expected_minutes = 0

(***************************************************************************)
(* Lifecycle of one player context: build_player_ctx, then enhancer stages *)
(* in any order                                                            *)
(***************************************************************************)
RosterSamples ==
    LET s_out == <<"O", "u", "t">>
        s_active == <<"A", "c", "t", "i", "v", "e">>
        p_pg == <<"p", "g">>
    IN  {None} \cup
        { [t |-> "dict", PLAYER |-> "A", POSITION |-> p, STARTER |-> b, STATUS |-> s] :
              p \in {Str(p_pg), Other}, b \in BOOLEAN,
              s \in {Str(s_out), Str(s_active), None, Other} }

StatRows ==
    { None, Other,
      [t |-> "dict", MIN_AVG |-> Num(3000), LAST_MIN |-> Num(3200), PTS_AVG |-> Num(2050),
       REB_AVG |-> Num(520), AST_AVG |-> Num(410)],
      [t |-> "dict", MIN_AVG |-> Other, LAST_MIN |-> Num(3200), PTS_AVG |-> Num(2050),
       REB_AVG |-> Num(520), AST_AVG |-> Num(410)] }

TeamContexts == {None, [t |-> "dict", team_abbr |-> "BOS"]}
OpponentContexts == {None, [t |-> "dict", opponent_team |-> "SAC"]}

\* RotationAnalyzer.rotation_signals: empty, or one cached matchup that
\* knows the player as a starter projected for 30 minutes
NoSignals ==
    [role_definitions |-> EmptyDict, minutes_projections |-> EmptyDict,
     ceiling_indicators |-> EmptyDict, lineup_shocks |-> <<>>]

StarterSignals ==
    [role_definitions |->
         ("BOS_A" :> [role |-> "starter", avg_minutes |-> 3000, starter_confidence |-> 90]),
     minutes_projections |->
         ("BOS_A" :> [projected_minutes |-> 3150, base_minutes |-> 3000,
                      role |-> "starter", confidence |-> 80]),
     ceiling_indicators |->
         ("BOS_A" :> [ceiling_factor |-> 110, minutes_together |-> 1200, net_rating |-> 45]),
     lineup_shocks |-> <<[team |-> "BOS", player |-> "BOS_A", impact |-> "medium"]>>]

SignalCaches ==
    { EmptyDict, ("G1" :> [signals |-> NoSignals]), ("G1" :> [signals |-> StarterSignals]) }

VacuumSamples ==
    { EmptyDict,
      ("A" :> [reason |-> "Substituto de B", boost |-> 125, absent_starter |-> "B",
               position |-> "PG"]) }

EnhanceArgs ==
    [home_team : {"BOS", ""}, away_team : {"SAC"}, vacuum_data : VacuumSamples,
     matchup_context : {EmptyDict, [cache_key |-> "G1"]}]

ContextInit ==
    /\ pc = At("build", "")
    /\ build_args \in [roster_entry : RosterSamples, df_l5_row : StatRows,
                       team_context : TeamContexts, opponent_context : OpponentContexts]
    /\ derive_result = None
    /\ player_context = EmptyDict
    /\ rotation_signals \in SignalCaches
    /\ enhance_args \in EnhanceArgs
    /\ stages = 0
    /\ ComposeIdle /\ ThesisIdle /\ RotationIdle /\ InjuryIdle /\ MultipleIdle /\ game_ctx = EmptyDict
    /\ ConcurrentIdle

\* player_ctx = build_player_ctx(roster_entry, df_l5_row, team_context, opponent_context)
BuildPlayerCtx ==
    /\ pc.at = "build"
    /\ player_context' = build_player_ctx(build_args.roster_entry, build_args.df_l5_row,
                                          build_args.team_context, build_args.opponent_context)
    /\ pc' = At("built", "")
    /\ UNCHANGED <<build_args, derive_result, rotation_signals, enhance_args, stages>>
    /\ UNCHANGED notContext

\* player_ctx = self.pace_adjuster.adjust_player_stats(player_ctx, home, away)
PaceStage ==
    /\ pc.at \in {"built", "enhanced"}
    /\ stages < MaxStages
    /\ \E ups \in [1..Len(volume_stats) -> BOOLEAN] :
           player_context' = adjust_player_stats(player_context, enhance_args.home_team,
                                                 enhance_args.away_team, ups)
    /\ stages' = stages + 1
    /\ pc' = At("enhanced", "")
    /\ UNCHANGED <<build_args, derive_result, rotation_signals, enhance_args>>
    /\ UNCHANGED notContext

\* player_ctx = self.vacuum_analyzer.apply_vacuum_boost(player_ctx, vacuum_data)
VacuumStage ==
    /\ pc.at \in {"built", "enhanced"}
    /\ stages < MaxStages
    /\ \E ups \in [1..Len(volume_stats) -> BOOLEAN] :
           player_context' = apply_vacuum_boost(player_context, enhance_args.vacuum_data, ups)
    /\ stages' = stages + 1
    /\ pc' = At("enhanced", "")
    /\ UNCHANGED <<build_args, derive_result, rotation_signals, enhance_args>>
    /\ UNCHANGED notContext

\* player_ctx = rotation_analyzer.enhance_player_context(player_ctx, matchup_context)
RotationStage ==
    /\ pc.at \in {"built", "enhanced"}
    /\ stages < MaxStages
    /\ player_context' = enhance_player_context(player_context,
                                                enhance_args.matchup_context, rotation_signals)
    /\ stages' = stages + 1
    /\ pc' = At("enhanced", "")
    /\ UNCHANGED <<build_args, derive_result, rotation_signals, enhance_args>>
    /\ UNCHANGED notContext

ContextNext == BuildPlayerCtx \/ PaceStage \/ VacuumStage \/ RotationStage

SpecContext == ContextInit /\ [][ContextNext]_vars

\* the status of a context marks the player out
MarkedOut(ctx) ==
    /\ "status" \in DOMAIN ctx
    /\ ctx.status.t = "str"
    /\ \E k \in OutKeywords : Contains(Lower(ctx.status.s), k)

(***************************************************************************)
(* C6: after build_player_ctx and after any sequence of enhancer stages    *)
(* (adjust_player_stats, apply_vacuum_boost, enhance_player_context), a    *)
(* player whose status marks them out has expected_minutes 0.              *)
(***************************************************************************)
C6_OutKeepsZeroMinutes ==
    (pc.at \in {"built", "enhanced"} /\ MarkedOut(player_context))
        => GetOr(player_context, "expected_minutes", 0) = 0

(***************************************************************************)
(* C9: build_player_ctx never propagates an exception, and when a          *)
(* statement of its try block raises, the returned context carries name,   *)
(* team and position and has min_L5, pts_L5, reb_L5, ast_L5, pra_L5 and    *)
(* expected_minutes all equal to 0.                                        *)
(***************************************************************************)
C9_MinimalContextOnError ==
    (/\ pc.at = "built"
     /\ BuildRaises(build_args.roster_entry, build_args.df_l5_row,
                    build_args.team_context, build_args.opponent_context))
        => /\ {"name", "team", "position"} \subseteq DOMAIN player_context
           /\ \A k \in {"min_L5", "pts_L5", "reb_L5", "ast_L5", "pra_L5", "expected_minutes"} :
                  k \in DOMAIN player_context /\ player_context[k] = 0


(***************************************************************************)
(* PaceAdjuster.adjust_player_stats applied to a stat line, then to its    *)
(* own output                                                              *)
(***************************************************************************)
\* stat lines with two decimals, a zero and values that sit on a rounding tie
PaceStatLines ==
    [name : {"A"}, pts_L5 : {0, 1025, 1237}, reb_L5 : {455, 520}, ast_L5 : {305},
     pra_L5 : {1785, 2982}]

\* BOS and SAC are rated in TEAM_PACE_DATA, the other two are not
PaceGames == [home_team : {"BOS", "SEA"}, away_team : {"SAC", "VAN"}]

PaceInit ==
    /\ pc = At("pace", "")
    /\ build_args \in [player_stats : PaceStatLines]
    /\ player_context = build_args.player_stats
    /\ enhance_args \in PaceGames
    /\ derive_result = EmptyDict
    /\ rotation_signals = EmptyDict
    /\ stages = 0
    /\ game_ctx = EmptyDict
    /\ ComposeIdle /\ ThesisIdle /\ RotationIdle /\ InjuryIdle /\ MultipleIdle /\ ConcurrentIdle

\* player_ctx = self.pace_adjuster.adjust_player_stats(player_ctx, home, away)
AdjustPlayerStats ==
    /\ pc.at \in {"pace", "paced"}
    /\ stages < MaxStages
    /\ \E ups \in [1..Len(volume_stats) -> BOOLEAN] :
           player_context' = adjust_player_stats(player_context, enhance_args.home_team,
                                                 enhance_args.away_team, ups)
    /\ stages' = stages + 1
    /\ pc' = At("paced", "")
    /\ UNCHANGED <<build_args, derive_result, rotation_signals, enhance_args>>
    /\ UNCHANGED notContext

SpecPace == PaceInit /\ [][AdjustPlayerStats]_vars

\* both teams are rated exactly 100 or are unrated
NeutralPace ==
    /\ GetOr(pace_data, enhance_args.home_team, 1000) = 1000
    /\ GetOr(pace_data, enhance_args.away_team, 1000) = 1000

(***************************************************************************)
(* C15: when both teams have pace rating exactly 100, or are unknown and   *)
(* default to 100, adjust_player_stats records pace_factor 1.0 and returns *)
(* pts_L5, reb_L5, ast_L5 and pra_L5 equal to the input values rounded to  *)
(* one decimal; applying it again to its own output changes none of them.  *)
(***************************************************************************)
C15_NeutralPaceIdempotent ==
    /\ []((pc.at = "paced" /\ NeutralPace) =>
            /\ player_context.pace_factor = 1000
            /\ \A i \in 1..Len(volume_stats) :
                   \E up \in BOOLEAN :
                       player_context[volume_stats[i]] =
                           10 * RoundTie(build_args.player_stats[volume_stats[i]], 10, up))
    /\ [][(pc.at = "paced" /\ NeutralPace) =>
            \A i \in 1..Len(volume_stats) :
                player_context'[volume_stats[i]] = player_context[volume_stats[i]]]_vars

\* a stat line with 10.25 points went through two neutral adjustments
C15_Witness ==
    /\ pc.at = "paced"
    /\ NeutralPace
    /\ stages = 2
    /\ build_args.player_stats.pts_L5 = 1025
    /\ player_context.pts_L5 \in {1020, 1030}

(***************************************************************************)
(* VacuumMatrixAnalyzer.analyze_team_vacuum on a team roster, followed by  *)
(* apply_vacuum_boost on the context of one of its players                 *)
(***************************************************************************)
\* VacuumMatrixAnalyzer._is_player_out(player)
_is_player_out(player) ==
    LET status == StatusLower(player)
    IN  \E keyword \in {kw_out, kw_injured, kw_ir} : Contains(status, keyword)

\* the loop over team_roster that collects the absent starters
AbsentStarters(team_roster) ==
    LET absent == SelectSeq(team_roster,
                            LAMBDA player : GetOr(player, "STARTER", FALSE)
                                            /\ _is_player_out(player))
    IN  [i \in 1..Len(absent) |->
            [name |-> GetOr(absent[i], "PLAYER", ""),
             position |-> Upper(GetOr(absent[i], "POSITION", Str(<<>>)).s)]]

\* the inner loop: the substitutes of one absent starter
RECURSIVE VacuumSubstitutes(_, _, _)
VacuumSubstitutes(team_roster, starter, vacuum_opportunities) ==
    IF team_roster = <<>> THEN vacuum_opportunities
    ELSE LET player == Head(team_roster)
             player_name == GetOr(player, "PLAYER", "")
         IN  VacuumSubstitutes(Tail(team_roster), starter,
                 IF /\ Upper(GetOr(player, "POSITION", Str(<<>>)).s) = starter.position
                    /\ ~GetOr(player, "STARTER", FALSE)
                    /\ ~_is_player_out(player)
                    /\ player_name \notin DOMAIN vacuum_opportunities
                 THEN Put(vacuum_opportunities, player_name,
                          [reason |-> "Substituto de " \o starter.name, boost |-> 125,
                           absent_starter |-> starter.name, position |-> starter.position])
                 ELSE vacuum_opportunities)

\* the outer loop over absent_starters
RECURSIVE VacuumOpportunities(_, _, _)
VacuumOpportunities(absent_starters, team_roster, vacuum_opportunities) ==
    IF absent_starters = <<>> THEN vacuum_opportunities
    ELSE VacuumOpportunities(Tail(absent_starters), team_roster,
             VacuumSubstitutes(team_roster, Head(absent_starters), vacuum_opportunities))

\* VacuumMatrixAnalyzer.analyze_team_vacuum(team_roster, team_abbr)
analyze_team_vacuum(team_roster) ==
    IF team_roster = <<>> THEN EmptyDict
    ELSE VacuumOpportunities(AbsentStarters(team_roster), team_roster, EmptyDict)

RosterNames == <<"A", "B", "C">>

\* rosters of three players with their own names; the positions differ in
\* case, the status texts are the ones the keyword lists tell apart
TeamRosters ==
    LET positions == {<<"P", "G">>, <<"p", "g">>, <<"C">>}
        statuses == {Str(<<"O", "u", "t">>), Str(<<"I", "n", "j", "u", "r", "y">>),
                     Str(<<"A", "c", "t", "i", "v", "e">>), None}
        entries(n) == { [t |-> "dict", PLAYER |-> n, POSITION |-> Str(p),
                         STARTER |-> b, STATUS |-> s] :
                            p \in positions, b \in BOOLEAN, s \in statuses }
    IN  { r \in [1..Len(RosterNames) -> UNION {entries(RosterNames[i]) : i \in 1..Len(RosterNames)}] :
              \A i \in 1..Len(RosterNames) : r[i].PLAYER = RosterNames[i] }

\* the five-game averages of the player whose context is built
VacuumStatRow ==
    [t |-> "dict", MIN_AVG |-> Num(2400), LAST_MIN |-> Num(2200), PTS_AVG |-> Num(1025),
     REB_AVG |-> Num(400), AST_AVG |-> Num(312), PRA_AVG |-> Num(1737)]

\* build_player_ctx for player i of the roster
RosterContext(team_roster, i) ==
    build_player_ctx(team_roster[i], VacuumStatRow,
                     [t |-> "dict", team_abbr |-> "BOS"], [t |-> "dict"])

VacuumInit ==
    /\ pc = At("roster", "")
    /\ build_args \in [team_roster : TeamRosters, index : 1..Len(RosterNames)]
    /\ derive_result = EmptyDict
    /\ player_context = EmptyDict
    /\ rotation_signals = EmptyDict
    /\ enhance_args = EmptyDict
    /\ stages = 0
    /\ game_ctx = EmptyDict
    /\ ComposeIdle /\ ThesisIdle /\ RotationIdle /\ InjuryIdle /\ MultipleIdle /\ ConcurrentIdle

\* player_ctx = build_player_ctx(roster_entry, df_l5_row, team_context, opponent_context)
BuildRosterContext ==
    /\ pc.at = "roster"
    /\ player_context' = RosterContext(build_args.team_roster, build_args.index)
    /\ pc' = At("roster_built", "")
    /\ UNCHANGED <<build_args, derive_result, rotation_signals, enhance_args, stages>>
    /\ UNCHANGED notContext

\* vacuum_data = self.vacuum_analyzer.analyze_team_vacuum(team_roster, team)
AnalyzeTeamVacuum ==
    /\ pc.at = "roster_built"
    /\ enhance_args' = [vacuum_data |-> analyze_team_vacuum(build_args.team_roster)]
    /\ pc' = At("analyzed", "")
    /\ UNCHANGED <<build_args, derive_result, player_context, rotation_signals, stages>>
    /\ UNCHANGED notContext

\* player_ctx = self.vacuum_analyzer.apply_vacuum_boost(player_ctx, vacuum_data)
ApplyVacuumBoost ==
    /\ pc.at = "analyzed"
    /\ \E ups \in [1..Len(volume_stats) -> BOOLEAN] :
           player_context' = apply_vacuum_boost(player_context, enhance_args.vacuum_data, ups)
    /\ pc' = At("boosted", "")
    /\ UNCHANGED <<build_args, derive_result, rotation_signals, enhance_args, stages>>
    /\ UNCHANGED notContext

VacuumNext == BuildRosterContext \/ AnalyzeTeamVacuum \/ ApplyVacuumBoost

SpecVacuum == VacuumInit /\ [][VacuumNext]_vars

\* availability "out" as derive_availability_and_expected_minutes decides it
AvailabilityOut(roster_entry) ==
    derive_availability_and_expected_minutes(roster_entry, None, TRUE).availability = "out"

\* the starters of the roster that are out and play the position of entry e
AbsentAtPosition(team_roster, e) ==
    { team_roster[j].PLAYER : j \in { k \in 1..Len(team_roster) :
          /\ team_roster[k].STARTER
          /\ AvailabilityOut(team_roster[k])
          /\ PositionUpper(team_roster[k]) = PositionUpper(e) } }

(***************************************************************************)
(* C14: when a starter at some position is out and a non-starter at the    *)
(* same position is not out, analyze_team_vacuum followed by               *)
(* apply_vacuum_boost multiplies that non-starter's pts_L5, reb_L5, ast_L5 *)
(* and pra_L5 by 1.25 (rounded to one decimal), sets vacuum_boost.active   *)
(* and records the absent starter's name; every other player's context is  *)
(* left unchanged.                                                         *)
(***************************************************************************)
C14_VacuumBoostForSubstitute ==
    pc.at = "boosted" =>
        LET team_roster == build_args.team_roster
            e == team_roster[build_args.index]
            before == RosterContext(team_roster, build_args.index)
            absent == AbsentAtPosition(team_roster, e)
        IN  IF ~e.STARTER /\ ~AvailabilityOut(e) /\ absent # {}
            THEN /\ \A i \in 1..Len(volume_stats) :
                        \E up \in BOOLEAN :
                            player_context[volume_stats[i]] =
                                10 * RoundTie(before[volume_stats[i]] * 125, 1000, up)
                 /\ "vacuum_boost" \in DOMAIN player_context
                 /\ player_context.vacuum_boost.active
                 /\ player_context.vacuum_boost.replaces \in absent
            ELSE player_context = before

\* the roster indices of the starters that are out and play the position of
\* entry e
AbsentIndices(team_roster, e) ==
    { k \in 1..Len(team_roster) :
          /\ team_roster[k].STARTER
          /\ AvailabilityOut(team_roster[k])
          /\ PositionUpper(team_roster[k]) = PositionUpper(e) }

(***************************************************************************)
(* C24: when several starters at one position are out, a non-starter at    *)
(* that position who is not out has one entry in the vacuum map, with      *)
(* boost 1.25 and the first absent starter in roster order as              *)
(* absent_starter, and after apply_vacuum_boost the player's pts_L5,       *)
(* reb_L5, ast_L5 and pra_L5 are the original values times 1.25 (rounded   *)
(* to one decimal), the factor applied once.                               *)
(***************************************************************************)
C24_VacuumBoostOnce ==
    pc.at \in {"analyzed", "boosted"} =>
        LET team_roster == build_args.team_roster
            e == team_roster[build_args.index]
            before == RosterContext(team_roster, build_args.index)
            absent == AbsentIndices(team_roster, e)
            first == CHOOSE k \in absent : \A j \in absent : k <= j
            vacuum_data == enhance_args.vacuum_data
        IN  (~e.STARTER /\ ~AvailabilityOut(e) /\ Cardinality(absent) >= 2) =>
                /\ e.PLAYER \in DOMAIN vacuum_data
                /\ vacuum_data[e.PLAYER].boost = 125
                /\ vacuum_data[e.PLAYER].absent_starter = team_roster[first].PLAYER
                /\ pc.at = "boosted" =>
                       \A i \in 1..Len(volume_stats) :
                           \E up \in BOOLEAN :
                               player_context[volume_stats[i]] =
                                   10 * RoundTie(before[volume_stats[i]] * 125, 1000, up)


(***************************************************************************)
(* The unavailability test of the vacancy analyzer next to the one of the  *)
(* context builder, on one roster entry                                    *)
(***************************************************************************)
\* self._is_player_out(player), on the entry availability was derived for
IsPlayerOut ==
    /\ pc.at = "derived"
    /\ enhance_args' = [is_player_out |-> _is_player_out(build_args.roster_entry)]
    /\ pc' = At("status_checked", "")
    /\ UNCHANGED <<build_args, derive_result, player_context, rotation_signals, stages>>
    /\ UNCHANGED notContext

SpecUnavailable == AvailabilityInit /\ [][DeriveAvailability \/ IsPlayerOut]_vars

(***************************************************************************)
(* C25: for every status string, _is_player_out is true exactly when the   *)
(* lower-cased status contains 'out', 'ir' or 'injur', which is exactly    *)
(* when derive_availability_and_expected_minutes returns availability      *)
(* 'out'.                                                                  *)
(***************************************************************************)
C25_SameUnavailabilityPredicate ==
    pc.at = "status_checked" =>
        LET status == Lower(build_args.roster_entry.STATUS.s)
        IN  /\ enhance_args.is_player_out <=>
                   (Contains(status, kw_out) \/ Contains(status, kw_ir)
                        \/ Contains(status, kw_injur))
            /\ enhance_args.is_player_out <=> derive_result.availability = "out"

(***************************************************************************)
(* RotationCeilingEngine.evaluate_rotation_context                         *)
(* (rotation_ceiling_engine.py).  Minutes in hundredths, confidences in    *)
(* hundredths.                                                             *)
(***************************************************************************)
\* truth value of a dict: empty dicts and None are false
Truthy(d) == d.t = "dict" /\ DOMAIN d # {"t"}

\* max(player_lineups, key=lambda x: x.get("minutes_together", 0)): first maximum
BestLineup(player_lineups) ==
    LET key(i) == GetOr(player_lineups[i], "minutes_together", 0)
        best == CHOOSE i \in 1..Len(player_lineups) :
                    /\ \A j \in 1..Len(player_lineups) : key(j) <= key(i)
                    /\ \A j \in 1..(i - 1) : key(j) < key(i)
    IN  player_lineups[best]

RoleByMinutes(expected_minutes) ==
    IF expected_minutes >= 2500 THEN "starter"
    ELSE IF expected_minutes >= 1800 THEN "rotation"
    ELSE IF expected_minutes >= 1200 THEN "bench"
    ELSE "deep_bench"

SamePosInjuries(injury_report, team, position) ==
    IF team \in DOMAIN injury_report
    THEN Cardinality({i \in 1..Len(injury_report[team]) :
                         GetOr(injury_report[team][i], "position", "") = position})
    ELSE 0

\* evaluate_rotation_context(player_data, injury_report, lineup_info, team_context);
\* player_lineups is bound only inside `if lineup_info:`, so the return
\* statement raises UnboundLocalError when lineup_info is empty or None
evaluate_rotation_context(player_data, injury_report, lineup_info) ==
    LET player_name == GetOr(player_data, "name", "")
        position == GetOr(player_data, "position", "")
        team == GetOr(player_data, "team", "")
        same_pos_injuries == SamePosInjuries(injury_report, team, position)
        own_minutes == GetOr(player_data, "expected_minutes", 0)
        player_lineups ==
            SelectSeq(GetOr(lineup_info, "stable_lineups", <<>>),
                      LAMBDA l : \E i \in 1..Len(l.lineup) : l.lineup[i] = player_name)
        stable == player_lineups # <<>>
        best_lineup == BestLineup(player_lineups)
        minutes_together == IF stable THEN GetOr(best_lineup, "minutes_together", 0) ELSE 0
        lineup_confidence == IF stable THEN GetOr(best_lineup, "confidence", 50) ELSE 0
        expected_minutes_from_lineup ==
            IF stable THEN GetOr(best_lineup, "expected_minutes", own_minutes) ELSE own_minutes
        lineup_shocks == GetOr(lineup_info, "lineup_shocks", <<>>)
        lineup_shock == \E i \in 1..Len(lineup_shocks) : lineup_shocks[i].team = team
        role == RoleByMinutes(expected_minutes_from_lineup)
    IN  IF ~Truthy(lineup_info) THEN [raised |-> TRUE, error |-> "UnboundLocalError"]
        ELSE [raised |-> FALSE,
              rotation_role |-> role,
              lineup_confidence |-> lineup_confidence,
              expected_minutes |-> expected_minutes_from_lineup,
              minutes_together |-> minutes_together,
              same_pos_injuries |-> same_pos_injuries,
              lineup_shock |-> lineup_shock,
              rotation_context |->
                  [stable_lineup |-> stable, role |-> role,
                   injury_impact |-> same_pos_injuries > 0,
                   minutes_certainty |-> Min2(lineup_confidence, 100)]]

LineupInfos ==
    LET LineupA == [lineup |-> <<"A", "B">>, minutes_together |-> 12000, confidence |-> 80]
        LineupB == [lineup |-> <<"A", "C">>, minutes_together |-> 20000,
                    expected_minutes |-> 2600]
        LineupC == [lineup |-> <<"B", "C">>, minutes_together |-> 30000, confidence |-> 90]
    IN  { None, [t |-> "dict"],
          [t |-> "dict", stable_lineups |-> <<>>],
          [t |-> "dict", stable_lineups |-> <<LineupC>>,
           lineup_shocks |-> <<[team |-> "BOS"]>>],
          [t |-> "dict", stable_lineups |-> <<LineupA, LineupC>>],
          [t |-> "dict", stable_lineups |-> <<LineupA, LineupB>>,
           lineup_shocks |-> <<[team |-> "SAC"]>>] }

InjuryReports ==
    { EmptyDict, ("BOS" :> <<[position |-> "PG"]>>),
      ("BOS" :> <<[position |-> "C"], [position |-> "PG"]>>) }

PlayerData ==
    { [name |-> "A", position |-> "PG", team |-> "BOS", expected_minutes |-> mins] :
          mins \in {0, 1200, 1800, 2500, 3400} }

RotationInit ==
    /\ pc = At("evaluate", "")
    /\ rotation_args \in [player_data : PlayerData, injury_report : InjuryReports,
                          lineup_info : LineupInfos]
    /\ rotation_result = EmptyDict
    /\ ComposeIdle /\ ThesisIdle /\ ContextIdle /\ MultipleIdle /\ game_ctx = EmptyDict
    /\ InjuryIdle
    /\ ConcurrentIdle

\* rotation_ctx = RotationCeilingEngine.evaluate_rotation_context(...)
EvaluateRotationContext ==
    /\ pc.at = "evaluate"
    /\ rotation_result' = evaluate_rotation_context(rotation_args.player_data,
                                                    rotation_args.injury_report,
                                                    rotation_args.lineup_info)
    /\ pc' = IF rotation_result'.raised THEN At("raised", "") ELSE At("evaluated", "")
    /\ UNCHANGED rotation_args
    /\ UNCHANGED notRotation

SpecRotation == RotationInit /\ [][EvaluateRotationContext]_vars

(***************************************************************************)
(* DailyMultipleEngine._validate_multiple (daily_multiple.py), one step    *)
(* per call.  The injected correlation_validator is any function from      *)
(* ordered pairs of legs to "none" (validate_pair returned None) or to the *)
(* severity of the violation it returned.                                  *)
(***************************************************************************)
Legs ==
    { [player_id |-> "A", team |-> "T1", market |-> "PTS", score_final |-> 50],
      [player_id |-> "B", team |-> "T1", market |-> "REB", score_final |-> 70],
      [player_id |-> "C", team |-> "T2", market |-> "PTS", score_final |-> 50] }

\* validators that report nothing or a critical violation, and validators
\* that report a violation for every pair, critical or not
Validators ==
    [Legs \X Legs -> {"none", "critical"}] \cup [Legs \X Legs -> {"warning", "critical"}]

\* violation = self.correlation_validator.validate_pair(rec1, rec2)
validate_pair(validator, rec1, rec2) == validator[<<rec1, rec2>>]

\* the pairs range(len(multiple)) x range(i+1, len(multiple))
LegPairs_Adjacent(ticket) == {<<i, i + 1>> : i \in 1..(Len(ticket) - 1)}
LegPairs(ticket) == {<<i, j>> \in (1..Len(ticket)) \X (1..Len(ticket)) : i < j}

\* violations: the truthy results of validate_pair over the pairs
Violations(ticket, validator) ==
    {p \in LegPairs(ticket) : validate_pair(validator, ticket[p[1]], ticket[p[2]]) # "none"}

\* critical_violations = [v for v in violations if v.get('severity') == 'critical']
CriticalViolations(ticket, validator) ==
    {p \in Violations(ticket, validator) :
        validate_pair(validator, ticket[p[1]], ticket[p[2]]) = "critical"}

\* multiple_sorted = sorted(multiple, key=score_final); multiple_sorted[0] is
\* the first leg of lowest score; multiple.remove() drops the first leg equal
\* to it
RemoveLowest(ticket) ==
    LET lowest == CHOOSE i \in 1..Len(ticket) :
                      /\ \A j \in 1..Len(ticket) :
                             GetOr(ticket[i], "score_final", 0) <= GetOr(ticket[j], "score_final", 0)
                      /\ \A j \in 1..(i - 1) :
                             GetOr(ticket[j], "score_final", 0) > GetOr(ticket[i], "score_final", 0)
        first == CHOOSE i \in 1..Len(ticket) :
                     /\ ticket[i] = ticket[lowest]
                     /\ \A j \in 1..(i - 1) : ticket[j] # ticket[lowest]
    IN  [k \in 1..(Len(ticket) - 1) |-> IF k < first THEN ticket[k] ELSE ticket[k + 1]]

MultipleInit ==
    /\ pc = At("validate", "")
    /\ multiple \in SeqsUpTo(Legs, MaxLegs)
    /\ correlation_validator \in Validators
    /\ depth = 0
    /\ tickets = EmptyDict
    /\ ComposeIdle /\ ThesisIdle /\ ContextIdle /\ RotationIdle /\ InjuryIdle /\ game_ctx = EmptyDict
    /\ ConcurrentIdle

\* critical violations: multiple.remove(multiple_sorted[0]);
\* return self._validate_multiple(multiple)
ValidateRecurse ==
    /\ pc.at = "validate"
    /\ multiple # <<>>
    /\ CriticalViolations(multiple, correlation_validator) # {}
    /\ multiple' = RemoveLowest(multiple)
    /\ depth' = depth + 1
    /\ UNCHANGED <<pc, correlation_validator, tickets>>
    /\ UNCHANGED notMultiple

\* `if not multiple: return []`, or no critical violation: return multiple
ValidateReturn ==
    /\ pc.at = "validate"
    /\ multiple = <<>> \/ CriticalViolations(multiple, correlation_validator) = {}
    /\ pc' = At("returned", "")
    /\ UNCHANGED <<multiple, correlation_validator, depth, tickets>>
    /\ UNCHANGED notMultiple

MultipleNext == ValidateRecurse \/ ValidateReturn

\* a call in progress keeps running
SpecMultiple == MultipleInit /\ [][MultipleNext]_vars /\ WF_vars(MultipleNext)

(***************************************************************************)
(* C7: _validate_multiple terminates for every ticket and every pairwise   *)
(* validator; each recursive call is made on a ticket with exactly one leg *)
(* fewer; and the returned ticket is empty or has no pair of legs for      *)
(* which validate_pair reports a critical violation.                       *)
(***************************************************************************)
C7_ValidateTerminates ==
    /\ <>(pc.at = "returned")
    /\ [][depth' = depth + 1 => Len(multiple') = Len(multiple) - 1]_vars
    /\ [](pc.at = "returned" =>
             \/ multiple = <<>>
             \/ \A i \in 1..Len(multiple) : \A j \in (i + 1)..Len(multiple) :
                    correlation_validator[<<multiple[i], multiple[j]>>] # "critical")

\* a ticket of three legs that lost two of them in two recursive calls and
\* was returned with one leg
C7_Witness ==
    /\ pc.at = "returned"
    /\ depth = 2
    /\ Len(multiple) = 1


(***************************************************************************)
(* C10: evaluate_rotation_context called with an empty or missing          *)
(* lineup_info returns, without an error, a record with lineup_confidence  *)
(* 0, no stable lineup and the role derived from the player's own expected *)
(* minutes.                                                                *)
(***************************************************************************)
C10_AbsentLineupDegrades ==
    (pc.at \in {"evaluated", "raised"} /\ ~Truthy(rotation_args.lineup_info))
        => /\ ~rotation_result.raised
           /\ rotation_result.lineup_confidence = 0
           /\ ~rotation_result.rotation_context.stable_lineup
           /\ rotation_result.rotation_role =
                  RoleByMinutes(rotation_args.player_data.expected_minutes)


(***************************************************************************)
(* C1: at every point of a composition, the returned result included, no   *)
(* player (the thesis 'player' field) appears in more than one of the four *)
(* buckets conservadora, ousada, banco, explosao.                          *)
(***************************************************************************)
PlayersOf(recs) == {recs[i].player : i \in 1..Len(recs)}

C1_NoPlayerInTwoBuckets ==
    \A c1, c2 \in DOMAIN recommendations :
        c1 # c2 => PlayersOf(recommendations[c1]) \cap PlayersOf(recommendations[c2]) = {}

\* a returned result in which a player sits in one bucket although another
\* bucket's pool held an otherwise eligible thesis of the same player
C1_Witness ==
    /\ pc.at = "done"
    /\ \E c1, c2 \in CategorySet :
         /\ c1 # c2
         /\ \E p \in PlayersOf(recommendations[c1]) :
              \E i \in 1..Len(categorized[c2 \o "_candidates"]) :
                 LET t == categorized[c2 \o "_candidates"][i] IN
                 /\ t.player = p
                 /\ PassesFilter(t, category_configs[c2], {})

(***************************************************************************)
(* C2: the buckets hold at most 4 (conservadora), 3 (ousada), 3 (banco)    *)
(* and 2 (explosao) recommendations, and so does the list each bucket is   *)
(* cut from when select_for_category returns it.                           *)
(***************************************************************************)
Capacity == [conservadora |-> 4, ousada |-> 3, banco |-> 3, explosao |-> 2]

C2_BucketCapacities ==
    /\ \A c \in DOMAIN recommendations : Len(recommendations[c]) <= Capacity[c]
    /\ pc.at = "adjust" => Len(selected) <= Capacity[pc.cat]

\* a returned bucket filled to its capacity from a pool that held more
\* eligible candidates than the capacity
C2_Witness ==
    /\ pc.at = "done"
    /\ \E c \in CategorySet :
         /\ Len(recommendations[c]) = Capacity[c]
         /\ Len(Filtered(categorized[c \o "_candidates"], category_configs[c], {})) > Capacity[c]

(***************************************************************************)
(* C8: compose_recommendations never raises; an exception inside the       *)
(* composition yields empty buckets instead of propagating.                *)
(***************************************************************************)
C8_NeverRaises == pc.at # "raised"

(***************************************************************************)
(* Composition over players that hold several theses: all_theses maps a    *)
(* player to a list of distinct theses, so the records of one player are   *)
(* adjacent in the iteration order and no record occurs twice.             *)
(***************************************************************************)
PlayerTheses ==
    { MkThesis("A", "BigRebound",  "REB", 70, "starter",  "T1", ThesisKeys),
      MkThesis("A", "ScorerLine",  "PTS", 80, "starter",  "T1", ThesisKeys),
      MkThesis("B", "ScorerLine",  "PTS", 75, "starter",  "T2", ThesisKeys),
      MkThesis("B", "ValueHunter", "PRA", 60, "rotation", "T2", ThesisKeys),
      MkThesis("C", "PaceBoost",   "PRA", 65, "rotation", "T2", ThesisKeys) }

GroupedByPlayer(s) ==
    /\ \A i, j \in 1..Len(s) : i # j => s[i] # s[j]
    /\ \A i, j, k \in 1..Len(s) :
           (i < j /\ j < k /\ s[i].player = s[k].player) => s[j].player = s[i].player

PlayerThesesInit ==
    ComposeInitWith({s \in SeqsUpTo(PlayerTheses, MaxTheses) : GroupedByPlayer(s)})

SpecPlayerTheses == PlayerThesesInit /\ [][ComposeNext]_vars

\* the records of the four buckets, in bucket order
AllRecs(recs) ==
    recs["conservadora"] \o recs["ousada"] \o recs["banco"] \o recs["explosao"]

Occurrences(s, player) == {i \in 1..Len(s) : s[i].player = player}

(***************************************************************************)
(* C18: when _ensure_cross_category_diversity runs at the end of a         *)
(* composition, every player that was selected, once or several times, is  *)
(* left with exactly one occurrence over the four buckets, and that        *)
(* occurrence carries the highest adjusted confidence the player had.      *)
(***************************************************************************)
C18_DedupKeepsBestOccurrence ==
    [][pc.at = "diversity" =>
          LET before == AllRecs(recommendations)
              after  == AllRecs(recommendations')
          IN  \A i \in 1..Len(before) :
                  LET player == before[i].player IN
                  /\ Cardinality(Occurrences(after, player)) = 1
                  /\ \A k \in Occurrences(after, player) :
                         \A j \in Occurrences(before, player) :
                             after[k].adjusted_confidence >= before[j].adjusted_confidence
      ]_vars

(***************************************************************************)
(* C19: within one composition no player is selected twice: the list one   *)
(* select_for_category call returns holds each player at most once, and so *)
(* do the four selections together, also when a player has several theses  *)
(* in one candidate pool.                                                  *)
(***************************************************************************)
C19_NoPlayerSelectedTwice ==
    /\ pc.at = "adjust" =>
           \A i, j \in 1..Len(selected) : i # j => selected[i].player # selected[j].player
    /\ pc.at = "diversity" =>
           \A i, j \in 1..Len(AllRecs(recommendations)) :
               i # j => AllRecs(recommendations)[i].player # AllRecs(recommendations)[j].player

(***************************************************************************)
(* Categorisation of one thesis: every thesis type, market and role, and   *)
(* confidences on both sides of each threshold                             *)
(***************************************************************************)
CategoryTheses ==
    { MkThesis("A", tt, m, c, role, "T1", ThesisKeys) :
          tt \in {"BigRebound", "AssistMatchup", "ScorerLine", "ValueHunter", "PaceBoost"},
          m \in {"PTS", "REB", "AST", "PRA"},
          c \in {54, 55, 59, 60, 64, 65, 69, 70},
          role \in {"starter", "rotation", "bench", "deep_bench"} }

CategoryInit == ComposeInitWith({<<t>> : t \in CategoryTheses})

SpecCategory == CategoryInit /\ [][ComposeNext]_vars

\* the rule of each category as the engine documents it
CategoryRule(c, t) ==
    LET role == t.player_ctx.role IN
    CASE c = "conservadora" ->
             /\ t.confidence >= 65 /\ role = "starter"
             /\ t.market \in {"PTS", "REB"}
             /\ t.thesis_type \in {"BigRebound", "ScorerLine"}
      [] c = "ousada" ->
             /\ t.confidence >= 60 /\ role \in {"starter", "rotation"}
             /\ t.market \in {"PRA", "REB+AST", "PTS+REB"}
             /\ t.thesis_type \in {"AssistMatchup", "PaceBoost"}
      [] c = "banco" ->
             /\ t.confidence >= 55 /\ role \in {"bench", "rotation"}
             /\ t.thesis_type = "ValueHunter"
      [] c = "explosao" ->
             /\ t.confidence >= 60
             /\ t.thesis_type \in {"PaceBoost", "AssistMatchup"}

\* the first matching rule in the order conservadora, ousada, banco,
\* explosao, else the confidence/role fallback, else none
ExpectedCategory(t) ==
    IF \E i \in 1..Len(Categories) : CategoryRule(Categories[i], t)
    THEN Categories[CHOOSE i \in 1..Len(Categories) :
                        /\ CategoryRule(Categories[i], t)
                        /\ \A j \in 1..(i - 1) : ~CategoryRule(Categories[j], t)]
    ELSE IF t.confidence >= 70 /\ t.player_ctx.role = "starter" THEN "conservadora"
    ELSE IF t.confidence >= 70 /\ t.player_ctx.role \in {"bench", "rotation"} THEN "banco"
    ELSE "None"

(***************************************************************************)
(* C20: categorize_theses puts a thesis into the pool of the first rule it *)
(* matches in the order conservadora, ousada, banco, explosao; a thesis    *)
(* that matches no rule goes to conservadora when its confidence is at     *)
(* least 0.7 and the role is starter, to banco when its confidence is at   *)
(* least 0.7 and the role is bench or rotation, and to no pool otherwise.  *)
(***************************************************************************)
C20_FirstMatchingCategory ==
    (pc.at \notin {"start", "categorize"} /\ Len(all_theses) = 1) =>
        \A c \in CategorySet :
            LET pool == categorized[c \o "_candidates"] IN
            IF c = ExpectedCategory(all_theses[1])
            THEN /\ Len(pool) = 1
                 /\ pool[1].thesis_type = all_theses[1].thesis_type
                 /\ pool[1].category = c
            ELSE pool = <<>>

\* a thesis that matches the ousada rule and the explosao rule sits in the
\* ousada pool
C20_Witness ==
    /\ pc = At("select", "conservadora")
    /\ Len(all_theses) = 1
    /\ CategoryRule("ousada", all_theses[1])
    /\ CategoryRule("explosao", all_theses[1])
    /\ Len(categorized["ousada_candidates"]) = 1
    /\ categorized["explosao_candidates"] = <<>>

(***************************************************************************)
(* Both entry points over players of one team, each with one thesis        *)
(***************************************************************************)
TeamTheses ==
    { MkThesis("A", "BigRebound",  "REB", 70, "starter",  "T1", ThesisKeys),
      MkThesis("B", "ScorerLine",  "PTS", 80, "starter",  "T1", ThesisKeys),
      MkThesis("D", "PaceBoost",   "PRA", 65, "starter",  "T1", ThesisKeys),
      MkThesis("E", "ValueHunter", "PRA", 60, "rotation", "T1", ThesisKeys),
      MkThesis("F", "BigRebound",  "REB", 75, "starter",  "T2", ThesisKeys) }

TeamPenaltyInit ==
    ComposeInitWith({s \in SeqsUpTo(TeamTheses, MaxRecords) : GroupedByPlayer(s)})

SpecTeamPenalty == TeamPenaltyInit /\ [][BucketsNext]_vars

OfTeam(recs, team) == Cardinality({i \in 1..Len(recs) : recs[i].player_team = team})

Penalised(rec) ==
    \E k \in 1..Len(rec.adjustments) : rec.adjustments[k] = "same_team_penalty"

\* the records selected before bucket i was selected
RECURSIVE SelectedBefore(_, _)
SelectedBefore(recs, i) ==
    IF i = 1 THEN <<>> ELSE SelectedBefore(recs, i - 1) \o recs[Categories[i - 1]]

(***************************************************************************)
(* C21: in compose_recommendations and in generate_multipla_dia a          *)
(* recommendation carries the -0.15 same-team penalty exactly when more    *)
(* than two of the recommendations selected so far in the call, itself and *)
(* the list it was selected with included, belong to its team; an ousada   *)
(* ticket leg counts the conservadora ticket and the ousada legs up to     *)
(* itself.                                                                 *)
(***************************************************************************)
C21_SameTeamPenalty ==
    /\ pc.at = "diversity" =>
           \A i \in 1..Len(Categories) :
               LET bucket == recommendations[Categories[i]]
                   so_far == SelectedBefore(recommendations, i) \o bucket
               IN  \A k \in 1..Len(bucket) :
                       Penalised(bucket[k]) <=> OfTeam(so_far, bucket[k].player_team) > 2
    /\ pc.at = "multipla_done" =>
           /\ \A k \in 1..Len(recommendations["conservadora"]) :
                  LET rec == recommendations["conservadora"][k] IN
                  Penalised(rec) <=> OfTeam(recommendations["conservadora"], rec.player_team) > 2
           /\ \A k \in 1..Len(recommendations["ousada"]) :
                  LET rec == recommendations["ousada"][k]
                      so_far == recommendations["conservadora"]
                                \o SubSeq(recommendations["ousada"], 1, k)
                  IN  Penalised(rec) <=> OfTeam(so_far, rec.player_team) > 2

\* the same for compose_recommendations alone
SameTeamPenaltyInCompose ==
    pc.at = "multipla_done" \/ C21_SameTeamPenalty

(***************************************************************************)
(* DailyMultipleEngine.compose_daily_multiples (daily_multiple.py)         *)
(***************************************************************************)
\* rec['original_category'] = category for every rec of every bucket
WithOriginalCategory(all_recommendations) ==
    [c \in DOMAIN all_recommendations |->
        [i \in 1..Len(all_recommendations[c]) |->
            [original_category |-> c] @@ all_recommendations[c][i]]]

\* all_recs, in the order of all_recommendations.items()
AllRecsOf(all_recommendations) ==
    LET tagged == WithOriginalCategory(all_recommendations)
    IN  tagged["conservadora"] \o tagged["ousada"] \o tagged["banco"] \o tagged["explosao"]

\* sorted(all_recs, key=score_final, reverse=True) is stable
RECURSIVE InsertByScoreFinal(_, _)
InsertByScoreFinal(x, s) ==
    IF s = <<>> THEN <<x>>
    ELSE IF GetOr(Head(s), "score_final", 0) >= GetOr(x, "score_final", 0)
         THEN <<Head(s)>> \o InsertByScoreFinal(x, Tail(s))
         ELSE <<x>> \o s

RECURSIVE SortByScoreFinal(_)
SortByScoreFinal(s) ==
    IF s = <<>> THEN <<>>
    ELSE InsertByScoreFinal(s[Len(s)], SortByScoreFinal(SubSeq(s, 1, Len(s) - 1)))

\* the loop of _select_for_multiple from one candidate on
RECURSIVE SelectForMultiple_NoTeamCap(_, _, _, _)
SelectForMultiple_NoTeamCap(candidates, max_legs, max_per_team, st) ==
    IF candidates = <<>> \/ Len(st.selected) >= max_legs THEN st.selected
    ELSE LET rec == Head(candidates)
         IN  IF rec.player_id \in st.used_players
             THEN SelectForMultiple_NoTeamCap(Tail(candidates), max_legs, max_per_team, st)
             ELSE SelectForMultiple_NoTeamCap(Tail(candidates), max_legs, max_per_team,
                      [selected |-> Append(st.selected, rec),
                       used_players |-> st.used_players \cup {rec.player_id},
                       used_teams |-> CounterInc(st.used_teams, rec.team)])

RECURSIVE SelectForMultiple(_, _, _, _)
SelectForMultiple(candidates, max_legs, max_per_team, st) ==
    IF candidates = <<>> \/ Len(st.selected) >= max_legs THEN st.selected
    ELSE LET rec == Head(candidates)
         IN  IF rec.player_id \in st.used_players
             THEN SelectForMultiple(Tail(candidates), max_legs, max_per_team, st)
             ELSE IF CounterGet(st.used_teams, rec.team) >= max_per_team
             THEN SelectForMultiple(Tail(candidates), max_legs, max_per_team, st)
             ELSE SelectForMultiple(Tail(candidates), max_legs, max_per_team,
                      [selected |-> Append(st.selected, rec),
                       used_players |-> st.used_players \cup {rec.player_id},
                       used_teams |-> CounterInc(st.used_teams, rec.team)])

_select_for_multiple(candidates, max_legs, max_per_team) ==
    SelectForMultiple(candidates, max_legs, max_per_team,
                      [selected |-> <<>>, used_players |-> {}, used_teams |-> EmptyCounter])

\* the recursion of _validate_multiple, to its return value
RECURSIVE _validate_multiple(_, _)
_validate_multiple(ticket, validator) ==
    IF ticket = <<>> THEN <<>>
    ELSE IF CriticalViolations(ticket, validator) # {}
    THEN _validate_multiple(RemoveLowest(ticket), validator)
    ELSE ticket

compose_daily_multiples(all_recommendations, validator) ==
    LET all_recs_sorted == SortByScoreFinal(AllRecsOf(all_recommendations))
        conservative_candidates ==
            SelectSeq(all_recs_sorted,
                      LAMBDA r : r.original_category \in {"conservadora", "ousada"})
        aggressive_candidates ==
            SelectSeq(all_recs_sorted,
                      LAMBDA r : r.original_category \in {"ousada", "banco", "explosao"})
        conservative_selected == _select_for_multiple(conservative_candidates, 6, 2)
        aggressive_selected == _select_for_multiple(aggressive_candidates, 4, 1)
    IN  [conservadora |-> _validate_multiple(conservative_selected, validator),
         ousada |-> _validate_multiple(aggressive_selected, validator)]

\* nine recommendations of eight players of five teams; the ninth is a
\* second recommendation of the first player
DailyRecs ==
    << [player_id |-> "P1", team |-> "T1", market |-> "PTS", score_final |-> 90],
       [player_id |-> "P2", team |-> "T1", market |-> "REB", score_final |-> 85],
       [player_id |-> "P3", team |-> "T1", market |-> "PTS", score_final |-> 80],
       [player_id |-> "P4", team |-> "T2", market |-> "PTS", score_final |-> 80],
       [player_id |-> "P5", team |-> "T2", market |-> "REB", score_final |-> 70],
       [player_id |-> "P6", team |-> "T3", market |-> "AST", score_final |-> 65],
       [player_id |-> "P7", team |-> "T4", market |-> "PTS", score_final |-> 60],
       [player_id |-> "P8", team |-> "T5", market |-> "PRA", score_final |-> 55],
       [player_id |-> "P1", team |-> "T1", market |-> "REB", score_final |-> 50] >>

\* the bucket a recommendation sits in when it is not in ousada or absent
HomeBucket ==
    <<"conservadora", "conservadora", "banco", "conservadora", "explosao",
      "conservadora", "conservadora", "conservadora", "banco">>

Indices(n) == [i \in 1..n |-> i]

BucketsOf(assign) ==
    [c \in CategorySet |->
        LET idx == SelectSeq(Indices(Len(DailyRecs)), LAMBDA i : assign[i] = c)
        IN  [k \in 1..Len(idx) |-> DailyRecs[idx[k]]]]

DailyLegs ==
    UNION { { [original_category |-> c] @@ DailyRecs[i] : c \in {"ousada", HomeBucket[i]} } :
                i \in 1..Len(DailyRecs) }

\* a validator that reports nothing, one that reports a critical violation
\* for every pair, one that reports it for two legs of one team
DailyValidators ==
    { [p \in DailyLegs \X DailyLegs |-> "none"],
      [p \in DailyLegs \X DailyLegs |-> "critical"],
      [p \in DailyLegs \X DailyLegs |->
          IF p[1].team = p[2].team THEN "critical" ELSE "warning"] }

DailyInit ==
    /\ pc = At("daily", "")
    /\ \E assign \in [1..Len(DailyRecs) -> {"none", "ousada", "home"}] :
           recommendations =
               BucketsOf([i \in 1..Len(DailyRecs) |->
                             IF assign[i] = "home" THEN HomeBucket[i] ELSE assign[i]])
    /\ correlation_validator \in DailyValidators
    /\ tickets = EmptyDict
    /\ multiple = <<>>
    /\ depth = 0
    /\ all_theses = <<>>
    /\ used_players = {}
    /\ used_teams = EmptyCounter
    /\ used_markets = EmptyCounter
    /\ categorized = EmptyDict
    /\ selected = <<>>
    /\ game_ctx = EmptyDict
    /\ ThesisIdle /\ ContextIdle /\ RotationIdle /\ InjuryIdle /\ ConcurrentIdle

\* multiples = daily_engine.compose_daily_multiples(all_recommendations)
ComposeDailyMultiples ==
    /\ pc.at = "daily"
    /\ tickets' = compose_daily_multiples(recommendations, correlation_validator)
    /\ recommendations' = WithOriginalCategory(recommendations)
    /\ pc' = At("daily_done", "")
    /\ UNCHANGED <<game_ctx, all_theses, engine, categorized, selected>>
    /\ UNCHANGED <<multiple, correlation_validator, depth>>
    /\ UNCHANGED <<thesisVars, contextVars, rotationVars, injuryVars, concurrentVars>>

SpecDaily == DailyInit /\ [][ComposeDailyMultiples]_vars

LegsOfTeam(ticket, team) == Cardinality({i \in 1..Len(ticket) : ticket[i].team = team})

TicketWithin(ticket, max_legs, max_per_team, buckets) ==
    /\ Len(ticket) <= max_legs
    /\ \A i \in 1..Len(ticket) :
           /\ LegsOfTeam(ticket, ticket[i].team) <= max_per_team
           /\ \A j \in 1..Len(ticket) : i # j => ticket[i].player_id # ticket[j].player_id
           /\ ticket[i].original_category \in buckets
           /\ \E k \in 1..Len(recommendations[ticket[i].original_category]) :
                  recommendations[ticket[i].original_category][k] = ticket[i]

(***************************************************************************)
(* C22: every ticket compose_daily_multiples returns, correlation          *)
(* validation included, respects its caps: the conservative ticket has at  *)
(* most 6 legs and at most 2 per team, the aggressive ticket at most 4     *)
(* legs and at most 1 per team, no player_id occurs twice in a ticket,     *)
(* conservative legs come from the conservadora and ousada buckets only    *)
(* and aggressive legs from ousada, banco and explosao only.               *)
(***************************************************************************)
C22_TicketCaps ==
    pc.at = "daily_done" =>
        /\ TicketWithin(tickets["conservadora"], 6, 2, {"conservadora", "ousada"})
        /\ TicketWithin(tickets["ousada"], 4, 1, {"ousada", "banco", "explosao"})

\* both caps bind: more candidates than legs, six and four legs returned,
\* a team with two conservative legs and a third candidate left out
C22_Witness ==
    /\ pc.at = "daily_done"
    /\ Len(tickets["conservadora"]) = 6
    /\ Len(tickets["ousada"]) = 4
    /\ LegsOfTeam(tickets["conservadora"], "T1") = 2
    /\ Len(recommendations["conservadora"]) + Len(recommendations["ousada"]) > 6
    /\ Len(recommendations["ousada"]) + Len(recommendations["banco"])
           + Len(recommendations["explosao"]) > 4

MinimumLegs(ticket, min_legs) == ticket = <<>> \/ Len(ticket) >= min_legs

(***************************************************************************)
(* C23: no daily-multiple entry point returns a conservative ticket that   *)
(* is non-empty and has fewer than 3 legs, or an aggressive ticket that is *)
(* non-empty and has fewer than 2 legs.                                    *)
(***************************************************************************)
C23_MinimumTicketSizes ==
    /\ pc.at = "daily_done" =>
           /\ MinimumLegs(tickets["conservadora"], 3)
           /\ MinimumLegs(tickets["ousada"], 2)
    /\ pc.at = "multipla_done" =>
           /\ MinimumLegs(recommendations["conservadora"], 3)
           /\ MinimumLegs(recommendations["ousada"], 2)

(***************************************************************************)
(* One StrategyEngine used for several calls in a row.  calls records the  *)
(* entry points of the calls that have returned.                           *)
(***************************************************************************)
MaxCalls == 2

ReuseTheses ==
    { MkThesis("A", "BigRebound", "REB", 70, "starter", "T1", ThesisKeys),
      MkThesis("B", "ScorerLine", "PTS", 80, "starter", "T1", ThesisKeys),
      MkThesis("D", "PaceBoost",  "PRA", 65, "starter", "T1", ThesisKeys) }

ReuseInputs == {s \in SeqsUpTo(ReuseTheses, MaxRecords) : GroupedByPlayer(s)}

ReuseInit == ComposeInitWith(ReuseInputs)

\* the caller takes the result and calls an entry point of the same engine
\* again, with arguments of its choice
NextCall ==
    /\ pc.at \in {"done", "multipla_done"}
    /\ Cardinality(DOMAIN calls) < MaxCalls
    /\ calls' = calls @@ ((Cardinality(DOMAIN calls) + 1) :> pc.at)
    /\ all_theses' \in ReuseInputs
    /\ game_ctx' \in GameContexts
    /\ categorized' = EmptyDict
    /\ selected' = <<>>
    /\ recommendations' = EmptyDict
    /\ pc' = At("start", "")
    /\ UNCHANGED engine
    /\ UNCHANGED <<thesisVars, contextVars, rotationVars, injuryVars, multipleVars>>

ReuseNext == BucketsNext \/ NextCall

SpecReuse == ReuseInit /\ [][ReuseNext]_vars

\* the attributes of a freshly constructed engine
FreshEngine ==
    [used_players |-> {}, used_teams |-> EmptyCounter, used_markets |-> EmptyCounter]

(***************************************************************************)
(* C26: used_players, used_teams and used_markets are empty when a call of *)
(* compose_recommendations or generate_multipla_dia starts its work, and   *)
(* the result of a call made after any earlier calls on the same engine    *)
(* equals the result of the same call on a freshly constructed engine.     *)
(***************************************************************************)
C26_CallsStartFromEmptyTrackers ==
    /\ pc.at = "categorize" => Self = FreshEngine
    /\ pc.at = "done" => recommendations = compose_recommendations(all_theses, game_ctx)
    /\ pc.at = "multipla_done" =>
           recommendations = generate_multipla_dia(FreshEngine, all_theses, game_ctx).result

\* a third call on an engine whose first two calls selected players: it
\* returns three recommendations of one team
C26_Witness ==
    /\ pc.at = "done"
    /\ DOMAIN calls = {1, 2}
    /\ calls[1] = "multipla_done"
    /\ calls[2] = "done"
    /\ Len(AllRecs(recommendations)) = 3

(***************************************************************************)
(* Theses of ThesisEngine handed to StrategyEngine.compose_recommendations *)
(***************************************************************************)
MaxRoster == 2

PipelinePlayers ==
    [name : {"P1", "P2", "P3"}, pos : {"PG", "PF"},
     player_class : { {"RUNNER", "ATHLETIC"}, {"PLAYMAKER", "RUNNER"},
                      {"SCORER", "YOUNG", "GLASS_BANGER"} },
     role : {"starter"}, team : {"T1"},
     dvp_reb : {130}, dvp_ast : {200}, dvp_pts : {110},
     usg : {45}, ast_pct : {35},
     min_avg : {20}, pra : {30}, last_5_min_avg : {25},
     ppg : {20}, last_5_ppg : {25}]

PipelineGames ==
    [spread : {-3}, pace : {95, 135}, total : {230},
     home_team : {"T1"}, away_team : {"T2"}]

\* rosters list every player once
PipelineRosters ==
    {r \in SeqsUpTo(PipelinePlayers, MaxRoster) :
        \A i, j \in 1..Len(r) : i # j => r[i].name # r[j].name}

\* the lists generate_all_theses can return for one player, over the ways
\* its roundings can fall
AllThesesOf(p, g) ==
    {generate_all_theses(p, g, ups) : ups \in [1..Len(ThesisTypes) -> BOOLEAN]}

\* a thesis as the StrategyEngine reads it; without a 'player_ctx' key
\* thesis.get('player_ctx', {}) gives role '' and team ''
RECURSIVE AsInput(_, _, _)
AsInput(theses, role, team) ==
    IF theses = <<>> THEN <<>>
    ELSE LET t == Head(theses)
         IN  <<MkThesis(t.player, t.thesis_type, t.market, t.confidence, role, team,
                        ThesisKeys)>>
             \o AsInput(Tail(theses), role, team)

\* process_game(players_data, game_ctx): the dicts it can return, theses in
\* the order of the players
RECURSIVE process_game(_, _)
process_game(players, g) ==
    IF players = <<>> THEN {<<>>}
    ELSE {AsInput(h, "", "") \o t :
              h \in AllThesesOf(Head(players), g), t \in process_game(Tail(players), g)}

\* the loop that calls generate_all_theses for each player and sets
\* thesis['player_ctx'] = player_ctx on each thesis
RECURSIVE TagTheses(_, _)
TagTheses(players, g) ==
    IF players = <<>> THEN {<<>>}
    ELSE LET p == Head(players)
         IN  {AsInput(h, p.role, p.team) \o t :
                  h \in AllThesesOf(p, g), t \in TagTheses(Tail(players), g)}

PipelineInit ==
    /\ pc = At("process", "")
    /\ players_data \in PipelineRosters
    /\ game_ctx \in PipelineGames
    /\ player_ctx = EmptyDict
    /\ generated_theses = <<>>
    /\ ComposeIdle
    /\ ContextIdle
    /\ RotationIdle /\ InjuryIdle
    /\ MultipleIdle
    /\ ConcurrentIdle

\* all_theses = thesis_engine.process_game(players_data, game_ctx)
ProcessGame ==
    /\ pc.at = "process"
    /\ all_theses' \in process_game(players_data, game_ctx)
    /\ pc' = At("start", "")
    /\ UNCHANGED <<game_ctx, engine, categorized, selected, recommendations>>
    /\ UNCHANGED notCompose

\* the per-player loop around generate_all_theses
GenerateAndTag ==
    /\ pc.at = "process"
    /\ all_theses' \in TagTheses(players_data, game_ctx)
    /\ pc' = At("start", "")
    /\ UNCHANGED <<game_ctx, engine, categorized, selected, recommendations>>
    /\ UNCHANGED notCompose

PipelineNext == ProcessGame \/ GenerateAndTag \/ ComposeNext

SpecPipeline == PipelineInit /\ [][PipelineNext]_vars

(***************************************************************************)
(* C27: in theses that come from ThesisEngine every PaceBoost thesis has   *)
(* a confidence below 0.6 and every AssistMatchup thesis has market AST,   *)
(* so no thesis reaches the ousada pool and the ousada bucket returned by  *)
(* compose_recommendations is empty.                                       *)
(***************************************************************************)
C27_OusadaNeverFilled ==
    /\ \A i \in 1..Len(all_theses) :
           /\ all_theses[i].thesis_type = "PaceBoost" => all_theses[i].confidence < 60
           /\ all_theses[i].thesis_type = "AssistMatchup" => all_theses[i].market = "AST"
    /\ "ousada_candidates" \in DOMAIN categorized =>
           categorized["ousada_candidates"] = <<>>
    /\ pc.at = "done" => recommendations["ousada"] = <<>>

\* a composition over a starter's PaceBoost thesis on PRA from the fastest
\* game and an AssistMatchup thesis, with a bucket other than ousada filled
C27_Witness ==
    /\ pc.at = "done"
    /\ \E i \in 1..Len(all_theses) :
           /\ all_theses[i].thesis_type = "PaceBoost"
           /\ all_theses[i].market = "PRA"
           /\ all_theses[i].player_ctx.role = "starter"
           /\ all_theses[i].confidence = 53
    /\ \E i \in 1..Len(all_theses) : all_theses[i].thesis_type = "AssistMatchup"
    /\ AllRecs(recommendations) # <<>>

(***************************************************************************)
(* The AssistMatchup and ScorerLine generators over games and recent form  *)
(***************************************************************************)
FactorSpreads == {-12, -7, -3, 0, 9}
FactorTotals == {210, 230}
FactorForms == {15, 25}

FactorPlayers ==
    [name : {"X"}, pos : {"SG", "PF"},
     player_class : { {"PLAYMAKER", "SCORER"}, {"SHOOTER"}, {"FLOOR_GENERAL"} },
     role : {"starter", "bench"}, team : {"T1"},
     dvp_reb : {100}, dvp_ast : {90, 120}, dvp_pts : {90, 110},
     usg : {15, 30}, ast_pct : {15, 35},
     min_avg : {20}, pra : {30}, last_5_min_avg : {25},
     ppg : {20}, last_5_ppg : FactorForms]

FactorGames ==
    [spread : FactorSpreads, pace : {100}, total : FactorTotals,
     home_team : {"T1"}, away_team : {"T2"}]

FactorInit ==
    /\ pc = At("generate", "")
    /\ player_ctx \in FactorPlayers
    /\ game_ctx \in FactorGames
    /\ generated_theses = <<>>
    /\ players_data = <<>>
    /\ ComposeIdle
    /\ ContextIdle
    /\ RotationIdle /\ InjuryIdle
    /\ MultipleIdle
    /\ ConcurrentIdle

SpecFactors ==
    FactorInit /\ [][\E i \in 1..Len(ThesisTypes) : RunThesisGenerator(i)]_vars

\* what the factor of one type adds to the confidence of a thesis, in 1e-6
Contribution(thesis, type, weight) ==
    IF type \in DOMAIN thesis.weights THEN (thesis.weights[type] - 10000) * weight ELSE 0

\* the base confidence plus the factors of the five weighted types, times
\* 100 into the unit of a clamped confidence
ListedConfidence(thesis, base) ==
    100 * (base + Contribution(thesis, "DvP", 30) + Contribution(thesis, "Pace", 20)
                + Contribution(thesis, "Role", 15) + Contribution(thesis, "PlayerClass", 20)
                + Contribution(thesis, "Usage", 15))

Roundings(confidence) == {Round2(confidence, up) : up \in BOOLEAN}

(***************************************************************************)
(* C28: factors of a type outside the weight table (GameContext, Form)     *)
(* add nothing: the confidence of an AssistMatchup or ScorerLine thesis is *)
(* its base plus the weighted factors of the five listed types, the        *)
(* confidence of generate_assist_matchup_thesis is the same for every      *)
(* spread, and that of generate_scorer_line_thesis is the same for every   *)
(* game total and every recent form.                                       *)
(***************************************************************************)
C28_UnlistedFactorsAddNothing ==
    /\ (pc = At("generator", "AssistMatchup") /\ generated_theses # <<>>) =>
           LET thesis == generated_theses[1]
           IN  /\ thesis.confidence
                     \in Roundings(Min2(Max2(ListedConfidence(thesis, 500000), 0), 100000000))
               /\ \A s \in FactorSpreads : \E up \in BOOLEAN :
                      thesis.confidence =
                          generate_assist_matchup_thesis(
                              player_ctx, [game_ctx EXCEPT !.spread = s], up).confidence
    /\ (pc = At("generator", "ScorerLine") /\ generated_theses # <<>>) =>
           LET thesis == generated_theses[1]
           IN  /\ thesis.confidence
                     \in Roundings(Min2(Max2(ListedConfidence(thesis, 550000), 0), 100000000))
               /\ \A t \in FactorTotals, f \in FactorForms : \E up \in BOOLEAN :
                      thesis.confidence =
                          generate_scorer_line_thesis(
                              [player_ctx EXCEPT !.last_5_ppg = f],
                              [game_ctx EXCEPT !.total = t], up).confidence

\* a ScorerLine thesis of a high-total game for a player in form: both
\* unlisted factors are above 1.0
C28_Witness ==
    /\ pc = At("generator", "ScorerLine")
    /\ generated_theses # <<>>
    /\ generated_theses[1].weights["GameContext"] = 11000
    /\ generated_theses[1].weights["Form"] = 11500
    /\ generated_theses[1].weights["PlayerClass"] = 12000

(***************************************************************************)
(* Buckets whose candidates mix priority and non-priority thesis types:    *)
(* the fallback of _determine_category sends a thesis of any type with     *)
(* confidence >= 0.7 to conservadora (starter) or banco (rotation, bench). *)
(***************************************************************************)
MixedTheses ==
    { MkThesis("A", "BigRebound",  "REB", 70, "starter",  "T1", ThesisKeys),
      MkThesis("X", "ValueHunter", "PTS", 75, "starter",  "T2", ThesisKeys),
      MkThesis("E", "ValueHunter", "PRA", 60, "rotation", "T1", ThesisKeys),
      MkThesis("G", "BigRebound",  "REB", 72, "rotation", "T2", ThesisKeys) }

MixedInit == ComposeInitWith({s \in SeqsUpTo(MixedTheses, MaxRecords) : GroupedByPlayer(s)})

SpecMixed == MixedInit /\ [][ComposeNext]_vars

\* the key a candidate of a bucket is ranked by, in thousandths
RankingKey(rec, category) ==
    IF rec.thesis_type \in category_configs[category].priority_theses
    THEN rec.confidence * 12 ELSE rec.confidence * 10

(***************************************************************************)
(* C29: every recommendation returned by select_for_category carries a     *)
(* selection_score equal to the key it was ranked by: its confidence times *)
(* 1.2 if its thesis type is a priority type of the bucket, times 1.0      *)
(* otherwise.                                                              *)
(***************************************************************************)
C29_SelectionScoreIsRankingKey ==
    pc.at = "adjust" =>
        \A i \in 1..Len(selected) :
            selected[i].selection_score = RankingKey(selected[i], pc.cat)

(***************************************************************************)
(* InjuryMonitor: the injuries of all teams in one cache with one          *)
(* last_updated stamp.  Time is counted in hours.                          *)
(***************************************************************************)
MaxClock == 5

CACHE_TTL_HOURS == 3

InjuryTeams == {"BOS", "MIA"}

\* the normalized list parsed from the roster the provider serves at hour t
RosterAt(t) == <<[fetched_at |-> t]>>

\* self.cache.get("teams", {}).get(team_abbr, [])
CachedList(c, team_abbr) == IF team_abbr \in DOMAIN c.teams THEN c.teams[team_abbr] ELSE <<>>

\* _is_cache_fresh() at hour t
_is_cache_fresh(c, t) ==
    /\ c.last_updated # None
    /\ t - c.last_updated.n < CACHE_TTL_HOURS

\* fetch_injuries_for_team(team_abbr) at hour t; ok is false when the
\* request fails and _fetch_team_roster_raw returns {}
fetch_injuries_for_team(c, team_abbr, t, ok) ==
    IF ~ok THEN [cache |-> c, list |-> CachedList(c, team_abbr)]
    ELSE [cache |-> [last_updated |-> Num(t),
                     teams |-> Put(c.teams, team_abbr, RosterAt(t))],
          list  |-> RosterAt(t)]

\* get_team_injuries(team_abbr) at hour t
get_team_injuries(c, team_abbr, t, ok) ==
    LET c2 == IF ~_is_cache_fresh(c, t)
              THEN fetch_injuries_for_team(c, team_abbr, t, ok).cache ELSE c
    IN  [cache |-> c2, list |-> CachedList(c2, team_abbr)]

\* InjuryMonitor(): no cache file yet
InjuryInit ==
    /\ pc = At("monitor", "")
    /\ cache = [last_updated |-> None, teams |-> EmptyDict]
    /\ now = 0
    /\ injuries_result = EmptyDict
    /\ game_ctx = EmptyDict
    /\ ComposeIdle /\ ThesisIdle /\ ContextIdle /\ RotationIdle /\ MultipleIdle
    /\ ConcurrentIdle

notInjury == <<pc, game_ctx, composeVars, thesisVars, contextVars, rotationVars, multipleVars,
               concurrentVars>>

\* an hour passes between two calls
Tick ==
    /\ now < MaxClock
    /\ now' = now + 1
    /\ UNCHANGED <<cache, injuries_result>>
    /\ UNCHANGED notInjury

\* monitor.fetch_injuries_for_team(team_abbr)
FetchInjuriesForTeam(team_abbr) ==
    /\ \E ok \in BOOLEAN :
           LET r == fetch_injuries_for_team(cache, team_abbr, now, ok)
           IN  /\ cache' = r.cache
               /\ injuries_result' = [call |-> "fetch_injuries_for_team", team |-> team_abbr,
                                      list |-> r.list, at |-> now, failed |-> ~ok]
    /\ UNCHANGED now
    /\ UNCHANGED notInjury

\* monitor.get_team_injuries(team_abbr); failed: the call made a request
\* and the request failed
GetTeamInjuries(team_abbr) ==
    /\ \E ok \in BOOLEAN :
           LET r == get_team_injuries(cache, team_abbr, now, ok)
           IN  /\ cache' = r.cache
               /\ injuries_result' = [call |-> "get_team_injuries", team |-> team_abbr,
                                      list |-> r.list, at |-> now,
                                      failed |-> ~_is_cache_fresh(cache, now) /\ ~ok]
    /\ UNCHANGED now
    /\ UNCHANGED notInjury

InjuryNext ==
    \/ Tick
    \/ \E team_abbr \in InjuryTeams : FetchInjuriesForTeam(team_abbr)
    \/ \E team_abbr \in InjuryTeams : GetTeamInjuries(team_abbr)

SpecInjuries == InjuryInit /\ [][InjuryNext]_vars

(***************************************************************************)
(* C30: while fetches succeed, get_team_injuries never serves a list older *)
(* than the TTL: a call for a team whose own entry is missing or was       *)
(* fetched more than ttl_hours ago refetches it, whenever the other teams  *)
(* were fetched.  Stated on the list a call returns: unless the call's own *)
(* request failed, the list is an entry fetched at most CACHE_TTL_HOURS    *)
(* before the call.                                                        *)
(***************************************************************************)
C30_NeverServesStaleList ==
    (/\ injuries_result # EmptyDict
     /\ injuries_result.call = "get_team_injuries"
     /\ ~injuries_result.failed) =>
        /\ injuries_result.list # <<>>
        /\ injuries_result.at - injuries_result.list[1].fetched_at <= CACHE_TTL_HOURS

====
